---- MODULE Spec2Model ----
(***************************************************************************)
(* Model of the hospital-management record access layer:                   *)
(*   - MemStorage (server/storage.ts): five insertion-ordered maps with    *)
(*     one id counter each, seeded with twenty beds;                       *)
(*   - registerRoutes (server/routes.ts): the /api handlers with their     *)
(*     middleware (ensureAuthenticated, checkRole), validation, ownership  *)
(*     checks and error translation.                                       *)
(* The state is the store; a request is handled in one step and a handler  *)
(* is an operator from the store and the request to the answer and the     *)
(* store it leaves.                                                        *)
(***************************************************************************)
EXTENDS Integers, Sequences, FiniteSets, TLC

(***************************************************************************)
(* Bounds of the model.                                                    *)
(***************************************************************************)
\* users that register
MaxUsers == 3
\* the user ids that request payloads name: 1..MaxPayloadId
MaxPayloadId == 2
\* records created by requests, over all collections (the seed beds excluded)
MaxRecords == 2
\* requests whose handlers have started, and the appointments they work on
MaxRequests == 2
MaxInFlightRecords == 1

(***************************************************************************)
(* Program constants.                                                      *)
(***************************************************************************)
NumSeedBeds == 20
PadWidth == 2
HoursPerDay == 24

\* null (patientId of a free bed); ids start at 1
NULL == 0
\* req.isAuthenticated() is false: no session user
Anonymous == 0

Roles == {"patient", "doctor", "nurse"}

\* server time zones: local time = UTC + tz hours
TZOffsets == {-5, 0, 5}
\* instants are hours since the epoch (UTC)
AppointmentInstants == {36}
\* :date path parameters: calendar days since the epoch, and an unparsable one
QueryDays == {1, 2}
BadDate == -1

VARIABLES
  tz,                     \* the host's time zone offset (hours)
  users, appointments, beds, prescriptions, doctorSchedules,
  userIdCounter, appointmentIdCounter, bedIdCounter,
  prescriptionIdCounter, scheduleIdCounter,
  requests                \* the requests whose handlers have started, by arrival

store == <<users, appointments, beds, prescriptions, doctorSchedules,
           userIdCounter, appointmentIdCounter, bedIdCounter,
           prescriptionIdCounter, scheduleIdCounter>>
vars == <<requests, tz, users, appointments, beds, prescriptions, doctorSchedules,
          userIdCounter, appointmentIdCounter, bedIdCounter,
          prescriptionIdCounter, scheduleIdCounter>>

(***************************************************************************)
(* JavaScript values.                                                      *)
(***************************************************************************)
\* Map<number, T>: a sequence of <<key, value>> entries in insertion order
MapHas(m, k) == \E i \in 1..Len(m) : m[i][1] = k
MapGet(m, k) == m[CHOOSE i \in 1..Len(m) : m[i][1] = k][2]
MapSet(m, k, v) ==
  IF MapHas(m, k)
  THEN [i \in 1..Len(m) |-> IF m[i][1] = k THEN <<k, v>> ELSE m[i]]
  ELSE Append(m, <<k, v>>)
MapDelete(m, k) == SelectSeq(m, LAMBDA e : e[1] # k)
MapValues(m) == [i \in 1..Len(m) |-> m[i][2]]
MapKeys(m) == {m[i][1] : i \in 1..Len(m)}

\* object spread { ...a, ...b }
Spread(a, b) ==
  [f \in DOMAIN a \cup DOMAIN b |-> IF f \in DOMAIN b THEN b[f] ELSE a[f]]

\* an ISO date-time string with a UTC designator, and a Date object
IsoString(h) == <<"iso", h>>
DateObject(h) == <<"Date", h>>
\* new Date(x) of an ISO string or of a Date: the Date of the same instant
NewDate(x) == DateObject(x[2])
GetTime(d) == d[2]

\* Date.prototype.setHours(0, 0, 0, 0): midnight of the instant's local day
SetHoursZero(d) ==
  DateObject((((GetTime(d) + tz) \div HoursPerDay) * HoursPerDay) - tz)
\* setDate(getDate() + 1) of a local midnight (no daylight-saving change)
NextLocalDay(d) == DateObject(GetTime(d) + HoursPerDay)

(***************************************************************************)
(* MemStorage.  A method that returns `T | undefined` returns a sequence   *)
(* of at most one record; a method that changes the store returns the new  *)
(* map (and counter) beside its result.                                    *)
(***************************************************************************)
\* ---- users
getUser(id) == IF MapHas(users, id) THEN <<MapGet(users, id)>> ELSE <<>>

getUsersByRole(role) == SelectSeq(MapValues(users), LAMBDA user : user.role = role)

createUser(insertUser) ==
  LET id == userIdCounter
      user == Spread(insertUser, [id |-> id])
  IN [ret |-> user, map |-> MapSet(users, id, user), counter |-> id + 1]

\* ---- appointments
getAppointment(id) ==
  IF MapHas(appointments, id) THEN <<MapGet(appointments, id)>> ELSE <<>>

getAppointmentsByPatient(patientId) ==
  SelectSeq(MapValues(appointments), LAMBDA appointment : appointment.patientId = patientId)

getAppointmentsByDoctor(doctorId) ==
  SelectSeq(MapValues(appointments), LAMBDA appointment : appointment.doctorId = doctorId)

getAppointmentsByDate(date) ==
  LET targetDate == SetHoursZero(NewDate(date))
      nextDay == NextLocalDay(NewDate(targetDate))
  IN SelectSeq(MapValues(appointments),
               LAMBDA appointment :
                 LET appDate == NewDate(appointment.appointmentDate)
                 IN /\ GetTime(appDate) >= GetTime(targetDate)
                    /\ GetTime(appDate) < GetTime(nextDay))

\* createAppointment taking the id from the size of the collection
createAppointmentSizeId(insertAppointment) ==
  LET id == Len(appointments) + 1
      appointment ==
        Spread(Spread(insertAppointment, [id |-> id]),
               [appointmentDate |-> NewDate(insertAppointment.appointmentDate)])
  IN [ret |-> appointment, map |-> MapSet(appointments, id, appointment),
      counter |-> id + 1]

createAppointment(insertAppointment) ==
  LET id == appointmentIdCounter
      appointment ==
        Spread(Spread(insertAppointment, [id |-> id]),
               [appointmentDate |-> NewDate(insertAppointment.appointmentDate)])
  IN [ret |-> appointment, map |-> MapSet(appointments, id, appointment),
      counter |-> id + 1]

\* updateAppointment with the spread operands exchanged
updateAppointmentKeepingStored(id, appointmentUpdate) ==
  IF ~MapHas(appointments, id)
  THEN [ret |-> <<>>, map |-> appointments]
  ELSE LET updatedAppointment == Spread(appointmentUpdate, MapGet(appointments, id))
       IN [ret |-> <<updatedAppointment>>,
           map |-> MapSet(appointments, id, updatedAppointment)]

updateAppointment(id, appointmentUpdate) ==
  IF ~MapHas(appointments, id)
  THEN [ret |-> <<>>, map |-> appointments]
  ELSE LET updatedAppointment == Spread(MapGet(appointments, id), appointmentUpdate)
       IN [ret |-> <<updatedAppointment>>,
           map |-> MapSet(appointments, id, updatedAppointment)]

deleteAppointment(id) ==
  [ret |-> MapHas(appointments, id), map |-> MapDelete(appointments, id)]

\* ---- beds
getBed(id) == IF MapHas(beds, id) THEN <<MapGet(beds, id)>> ELSE <<>>

getBedsByWard(ward) == SelectSeq(MapValues(beds), LAMBDA bed : bed.ward = ward)

getBedsByStatus(status) == SelectSeq(MapValues(beds), LAMBDA bed : bed.status = status)

getAllBeds == MapValues(beds)

\* createBed on an explicit map and counter (the constructor runs it on the
\* store under construction)
createBedIn(bedsMap, counter, insertBed) ==
  LET id == counter
      bed == Spread(insertBed, [id |-> id])
  IN [ret |-> bed, map |-> MapSet(bedsMap, id, bed), counter |-> id + 1]

createBed(insertBed) == createBedIn(beds, bedIdCounter, insertBed)

\* updateBed removing the stored bed without setting the merged one
updateBedRemoving(id, bedUpdate) ==
  IF ~MapHas(beds, id)
  THEN [ret |-> <<>>, map |-> beds]
  ELSE LET updatedBed == Spread(MapGet(beds, id), bedUpdate)
       IN [ret |-> <<updatedBed>>, map |-> MapDelete(beds, id)]

updateBed(id, bedUpdate) ==
  IF ~MapHas(beds, id)
  THEN [ret |-> <<>>, map |-> beds]
  ELSE LET updatedBed == Spread(MapGet(beds, id), bedUpdate)
       IN [ret |-> <<updatedBed>>, map |-> MapSet(beds, id, updatedBed)]

\* ---- prescriptions
getPrescription(id) ==
  IF MapHas(prescriptions, id) THEN <<MapGet(prescriptions, id)>> ELSE <<>>

getPrescriptionsByPatient(patientId) ==
  SelectSeq(MapValues(prescriptions), LAMBDA prescription : prescription.patientId = patientId)

getPrescriptionsByDoctor(doctorId) ==
  SelectSeq(MapValues(prescriptions), LAMBDA prescription : prescription.doctorId = doctorId)

createPrescription(insertPrescription) ==
  LET id == prescriptionIdCounter
      prescription ==
        Spread(Spread(insertPrescription, [id |-> id]),
               [prescriptionDate |-> NewDate(insertPrescription.prescriptionDate)])
  IN [ret |-> prescription, map |-> MapSet(prescriptions, id, prescription),
      counter |-> id + 1]

updatePrescription(id, prescriptionUpdate) ==
  IF ~MapHas(prescriptions, id)
  THEN [ret |-> <<>>, map |-> prescriptions]
  ELSE LET updatedPrescription == Spread(MapGet(prescriptions, id), prescriptionUpdate)
       IN [ret |-> <<updatedPrescription>>,
           map |-> MapSet(prescriptions, id, updatedPrescription)]

\* ---- doctor schedules
getDoctorSchedule(id) ==
  IF MapHas(doctorSchedules, id) THEN <<MapGet(doctorSchedules, id)>> ELSE <<>>

\* getDoctorSchedulesByDoctor without the doctorId filter
getDoctorSchedulesUnfiltered(doctorId) == MapValues(doctorSchedules)

getDoctorSchedulesByDoctor(doctorId) ==
  SelectSeq(MapValues(doctorSchedules), LAMBDA schedule : schedule.doctorId = doctorId)

\* createDoctorSchedule storing the input without the assigned id
createDoctorScheduleWithoutId(insertSchedule) ==
  LET id == scheduleIdCounter
      schedule == insertSchedule
  IN [ret |-> schedule, map |-> MapSet(doctorSchedules, id, schedule),
      counter |-> id + 1]

createDoctorSchedule(insertSchedule) ==
  LET id == scheduleIdCounter
      schedule == Spread(insertSchedule, [id |-> id])
  IN [ret |-> schedule, map |-> MapSet(doctorSchedules, id, schedule),
      counter |-> id + 1]

updateDoctorSchedule(id, scheduleUpdate) ==
  IF ~MapHas(doctorSchedules, id)
  THEN [ret |-> <<>>, map |-> doctorSchedules]
  ELSE LET updatedSchedule == Spread(MapGet(doctorSchedules, id), scheduleUpdate)
       IN [ret |-> <<updatedSchedule>>,
           map |-> MapSet(doctorSchedules, id, updatedSchedule)]

\* deleteDoctorSchedule answering true whether or not the key was present
deleteDoctorScheduleAlwaysTrue(id) ==
  [ret |-> TRUE, map |-> MapDelete(doctorSchedules, id)]

deleteDoctorSchedule(id) ==
  [ret |-> MapHas(doctorSchedules, id), map |-> MapDelete(doctorSchedules, id)]

(***************************************************************************)
(* MemStorage constructor: empty maps, counters at 1, then initializeData. *)
(***************************************************************************)
wards == <<"general", "icu", "pediatric", "maternity">>

\* ward.charAt(0).toUpperCase()
WardPrefix(ward) ==
  CASE ward = "general" -> "G"
    [] ward = "icu" -> "I"
    [] ward = "pediatric" -> "P"
    [] ward = "maternity" -> "M"

\* i.toString(): the decimal digits of a non-negative integer
RECURSIVE toString(_)
toString(n) ==
  LET digit == <<"0", "1", "2", "3", "4", "5", "6", "7", "8", "9">>[(n % 10) + 1]
  IN IF n < 10 THEN <<digit>> ELSE Append(toString(n \div 10), digit)

\* s.padStart(width, pad) for a one-character pad
RECURSIVE padStart(_, _, _)
padStart(s, width, pad) ==
  IF Len(s) >= width THEN s ELSE padStart(<<pad>> \o s, width, pad)

\* the loop body with the ward index taken from i - 1
SeedBedFromFirstWard(i) ==
  LET ward == wards[((i - 1) % Len(wards)) + 1]
      wardPrefix == WardPrefix(ward)
  IN [bedNumber |-> <<wardPrefix>> \o padStart(toString(i), PadWidth, "0"),
      ward |-> ward, status |-> "available", patientId |-> NULL]

\* the bed the loop body creates for loop index i (arrays are 0-based)
SeedBed(i) ==
  LET ward == wards[(i % Len(wards)) + 1]
      wardPrefix == WardPrefix(ward)
  IN [bedNumber |-> <<wardPrefix>> \o padStart(toString(i), PadWidth, "0"),
      ward |-> ward, status |-> "available", patientId |-> NULL]

\* the store after the loop has run for i, i+1, ..., NumSeedBeds
RECURSIVE initializeData(_, _, _)
initializeData(i, bedsMap, counter) ==
  IF i > NumSeedBeds THEN [map |-> bedsMap, counter |-> counter]
  ELSE LET created == createBedIn(bedsMap, counter, SeedBed(i))
       IN initializeData(i + 1, created.map, created.counter)

(***************************************************************************)
(* Construction.                                                           *)
(***************************************************************************)
Init ==
  /\ tz \in TZOffsets
  /\ requests = <<>>
  /\ users = <<>>
  /\ appointments = <<>>
  /\ prescriptions = <<>>
  /\ doctorSchedules = <<>>
  /\ userIdCounter = 1
  /\ appointmentIdCounter = 1
  /\ prescriptionIdCounter = 1
  /\ scheduleIdCounter = 1
  /\ beds = initializeData(1, <<>>, 1).map
  /\ bedIdCounter = initializeData(1, <<>>, 1).counter

\* a host on UTC; only GET /api/appointments/date/:date reads tz
InitUTC == Init /\ tz = 0

(***************************************************************************)
(* Requests.  The caller is the session's user id (passport puts the       *)
(* stored user in req.user) or Anonymous.  `fails` says that the store     *)
(* call the handler reaches rejects.                                       *)
(***************************************************************************)
Callers == {Anonymous} \cup MapKeys(users)
PayloadIds == 1..MaxPayloadId
RoleOf(caller) == MapGet(users, caller).role

\* what a handler answers: a status and the JSON body as a sequence of
\* records (empty for a message-only body)
Answer(status, result) == [status |-> status, result |-> result, failed |-> FALSE]
\* a store call rejected inside try/catch: the catch block's 500
Caught == [status |-> 500, result |-> <<>>, failed |-> TRUE]
\* a store call rejected in a handler without try/catch: the rejection leaves
\* the handler, which writes no response (status 0)
Escaped == [status |-> 0, result |-> <<>>, failed |-> TRUE]
\* an answer beside the map (and id counter) the handler leaves
Leaving(answer, map, counter) ==
  [status |-> answer.status, result |-> answer.result, failed |-> answer.failed,
   map |-> map, counter |-> counter]

\* middleware
ensureAuthenticated(caller) == caller # Anonymous
checkRole(roles, caller) == caller # Anonymous /\ RoleOf(caller) \in roles

\* the insert schemas: createInsertSchema(table).pick({...}); a notNull column
\* is required, a nullable one optional; parse() drops unknown keys
insertAppointmentSchema ==
  [required |-> {"patientId", "doctorId", "appointmentDate", "duration", "status", "type"},
   optional |-> {"notes"}]
insertBedSchema ==
  [required |-> {"bedNumber", "ward", "status"}, optional |-> {"patientId"}]
insertPrescriptionSchema ==
  [required |-> {"patientId", "doctorId", "prescriptionDate", "status"},
   optional |-> {"notes", "fileData", "fileName"}]
insertDoctorScheduleSchema ==
  [required |-> {"doctorId", "day", "startTime", "endTime", "activityType"},
   optional |-> {}]

SchemaAccepts(schema, data) == schema.required \subseteq DOMAIN data
SchemaParse(schema, data) ==
  [f \in DOMAIN data \cap (schema.required \cup schema.optional) |-> data[f]]
\* handleValidation: the parsed data, or the thrown {status: 400}
handleValidation(schema, data) ==
  IF SchemaAccepts(schema, data)
  THEN [ok |-> TRUE, data |-> SchemaParse(schema, data)]
  ELSE [ok |-> FALSE, data |-> <<>>]

\* a user registers (the auth collaborator calls storage.createUser)
CreateUser ==
  /\ Len(users) < MaxUsers
  /\ \E role \in Roles :
       LET created == createUser([role |-> role, password |-> "secret"])
       IN /\ users' = created.map
          /\ userIdCounter' = created.counter
  /\ UNCHANGED <<requests, tz, appointments, beds, prescriptions, doctorSchedules,
                 appointmentIdCounter, bedIdCounter, prescriptionIdCounter,
                 scheduleIdCounter>>

\* the records requests have created so far
RecordsCreated ==
  (appointmentIdCounter - 1) + (prescriptionIdCounter - 1)
    + (scheduleIdCounter - 1) + (bedIdCounter - 1 - NumSeedBeds)

IdsOf(records) == [i \in 1..Len(records) |-> records[i].id]
StatusCodes == {0, 200, 201, 204, 400, 401, 403, 404, 500}

(***************************************************************************)
(* Appointment routes.                                                     *)
(***************************************************************************)
ValidAppointmentBodies ==
  {[patientId |-> p, doctorId |-> d, appointmentDate |-> IsoString(t),
    duration |-> 30, status |-> "scheduled", type |-> "consultation"] :
     p \in PayloadIds, d \in PayloadIds, t \in AppointmentInstants}
PostAppointmentBodies ==
  ValidAppointmentBodies
    \cup {Spread(b, [admin |-> TRUE]) :
            b \in {v \in ValidAppointmentBodies :
                     v.doctorId = 1 /\ GetTime(v.appointmentDate) = 36}}
    \cup {[patientId |-> p] : p \in PayloadIds}
    \cup {[status |-> "scheduled"]}
PutAppointmentBodies ==
  {<<>>, [status |-> "cancelled"], [admin |-> TRUE], [id |-> MaxPayloadId]}
    \cup {[patientId |-> p] : p \in PayloadIds}
AppointmentIdParams == 1..MaxRecords

\* the nurse branch: for (const doctorId of doctorIds) push(...)
RECURSIVE appointmentsOfDoctors(_)
appointmentsOfDoctors(doctorIds) ==
  IF doctorIds = <<>> THEN <<>>
  ELSE getAppointmentsByDoctor(Head(doctorIds)) \o appointmentsOfDoctors(Tail(doctorIds))

\* GET /api/appointments
getAppointmentsRoute(caller, fails) ==
  IF ~ensureAuthenticated(caller) THEN Answer(401, <<>>)
  ELSE IF fails THEN Escaped
  ELSE IF RoleOf(caller) = "patient" THEN Answer(200, getAppointmentsByPatient(caller))
  ELSE IF RoleOf(caller) = "doctor" THEN Answer(200, getAppointmentsByDoctor(caller))
  ELSE Answer(200, appointmentsOfDoctors(IdsOf(getUsersByRole("doctor"))))

GetAppointments ==
  /\ \E caller \in Callers, fails \in BOOLEAN :
       getAppointmentsRoute(caller, fails).status \in StatusCodes
  /\ UNCHANGED vars

\* new Date(req.params.date): a date-only string is midnight UTC of that day
ParseDateParam(day) == DateObject(day * HoursPerDay)

\* GET /api/appointments/date/:date
getAppointmentsByDateRoute(caller, day, fails) ==
  IF ~ensureAuthenticated(caller) THEN Answer(401, <<>>)
  ELSE IF day = BadDate THEN Answer(400, <<>>)
  ELSE IF fails THEN Escaped
  ELSE Answer(200, getAppointmentsByDate(ParseDateParam(day)))

GetAppointmentsByDate ==
  /\ \E caller \in Callers, day \in QueryDays \cup {BadDate}, fails \in BOOLEAN :
       getAppointmentsByDateRoute(caller, day, fails).status \in StatusCodes
  /\ UNCHANGED vars

\* POST /api/appointments without the patient ownership check
postAppointmentRouteUnchecked(caller, body, fails) ==
  LET keep(answer) == Leaving(answer, appointments, appointmentIdCounter)
  IN IF ~ensureAuthenticated(caller) THEN keep(Answer(401, <<>>))
     ELSE LET validated == handleValidation(insertAppointmentSchema, body)
          IN IF ~validated.ok THEN keep(Answer(400, <<>>))
             ELSE IF fails THEN keep(Caught)
             ELSE LET created == createAppointment(validated.data)
                  IN Leaving(Answer(201, <<created.ret>>), created.map, created.counter)

\* POST /api/appointments with the ownership check ahead of the validation
postAppointmentRoutePolicyFirst(caller, body, fails) ==
  LET keep(answer) == Leaving(answer, appointments, appointmentIdCounter)
  IN IF ~ensureAuthenticated(caller) THEN keep(Answer(401, <<>>))
     ELSE IF /\ RoleOf(caller) = "patient"
             /\ ("patientId" \notin DOMAIN body \/ body.patientId # caller)
            THEN keep(Answer(403, <<>>))
     ELSE LET validated == handleValidation(insertAppointmentSchema, body)
          IN IF ~validated.ok THEN keep(Answer(400, <<>>))
             ELSE IF fails THEN keep(Caught)
             ELSE LET created == createAppointment(validated.data)
                  IN Leaving(Answer(201, <<created.ret>>), created.map, created.counter)

\* POST /api/appointments
postAppointmentRoute(caller, body, fails) ==
  LET keep(answer) == Leaving(answer, appointments, appointmentIdCounter)
  IN IF ~ensureAuthenticated(caller) THEN keep(Answer(401, <<>>))
     ELSE LET validated == handleValidation(insertAppointmentSchema, body)
              appointmentData == validated.data
          IN IF ~validated.ok THEN keep(Answer(400, <<>>))
             ELSE IF RoleOf(caller) = "patient" /\ appointmentData.patientId # caller
                    THEN keep(Answer(403, <<>>))
             ELSE IF fails THEN keep(Caught)
             ELSE LET created == createAppointment(appointmentData)
                  IN Leaving(Answer(201, <<created.ret>>), created.map, created.counter)

PostAppointment ==
  /\ RecordsCreated < MaxRecords
  /\ \E caller \in Callers, body \in PostAppointmentBodies, fails \in BOOLEAN :
       LET done == postAppointmentRoute(caller, body, fails)
       IN /\ appointments' = done.map
          /\ appointmentIdCounter' = done.counter
  /\ UNCHANGED <<requests, tz, users, beds, prescriptions, doctorSchedules, userIdCounter,
                 bedIdCounter, prescriptionIdCounter, scheduleIdCounter>>

\* PUT /api/appointments/:id without the patient ownership check
putAppointmentRouteUnchecked(caller, id, body, fails) ==
  LET keep(answer) == Leaving(answer, appointments, appointmentIdCounter)
  IN IF ~ensureAuthenticated(caller) THEN keep(Answer(401, <<>>))
     ELSE IF fails THEN keep(Caught)
     ELSE IF getAppointment(id) = <<>> THEN keep(Answer(404, <<>>))
     ELSE LET updated == updateAppointment(id, body)
          IN Leaving(Answer(200, updated.ret), updated.map, appointmentIdCounter)

\* PUT /api/appointments/:id
putAppointmentRoute(caller, id, body, fails) ==
  LET keep(answer) == Leaving(answer, appointments, appointmentIdCounter)
  IN IF ~ensureAuthenticated(caller) THEN keep(Answer(401, <<>>))
     ELSE IF fails THEN keep(Caught)
     ELSE LET appointment == getAppointment(id)
          IN IF appointment = <<>> THEN keep(Answer(404, <<>>))
             ELSE IF RoleOf(caller) = "patient" /\ appointment[1].patientId # caller
                    THEN keep(Answer(403, <<>>))
             ELSE LET updated == updateAppointment(id, body)
                  IN Leaving(Answer(200, updated.ret), updated.map, appointmentIdCounter)

PutAppointment ==
  /\ \E caller \in Callers, id \in AppointmentIdParams,
        body \in PutAppointmentBodies, fails \in BOOLEAN :
       appointments' = putAppointmentRoute(caller, id, body, fails).map
  /\ UNCHANGED <<requests, tz, users, beds, prescriptions, doctorSchedules, userIdCounter,
                 appointmentIdCounter, bedIdCounter, prescriptionIdCounter,
                 scheduleIdCounter>>

\* DELETE /api/appointments/:id
deleteAppointmentRoute(caller, id, fails) ==
  LET keep(answer) == Leaving(answer, appointments, appointmentIdCounter)
  IN IF ~ensureAuthenticated(caller) THEN keep(Answer(401, <<>>))
     ELSE IF fails THEN keep(Caught)
     ELSE LET appointment == getAppointment(id)
          IN IF appointment = <<>> THEN keep(Answer(404, <<>>))
             ELSE IF RoleOf(caller) = "patient" /\ appointment[1].patientId # caller
                    THEN keep(Answer(403, <<>>))
             ELSE LET deleted == deleteAppointment(id)
                  IN IF deleted.ret
                     THEN Leaving(Answer(204, <<>>), deleted.map, appointmentIdCounter)
                     ELSE Leaving(Answer(404, <<>>), deleted.map, appointmentIdCounter)

DeleteAppointment ==
  /\ \E caller \in Callers, id \in AppointmentIdParams, fails \in BOOLEAN :
       appointments' = deleteAppointmentRoute(caller, id, fails).map
  /\ UNCHANGED <<requests, tz, users, beds, prescriptions, doctorSchedules, userIdCounter,
                 appointmentIdCounter, bedIdCounter, prescriptionIdCounter,
                 scheduleIdCounter>>

\* the appointment routes that do not read the host's time zone
NextAppointments ==
  \/ CreateUser
  \/ GetAppointments
  \/ PostAppointment
  \/ PutAppointment
  \/ DeleteAppointment

SpecAppointments == InitUTC /\ [][NextAppointments]_vars

\* the appointment list routes, on hosts of every time zone
NextByDate ==
  \/ CreateUser
  \/ PostAppointment
  \/ GetAppointments
  \/ GetAppointmentsByDate

SpecByDate == Init /\ [][NextByDate]_vars

(***************************************************************************)
(* Bed routes.                                                             *)
(***************************************************************************)
ValidBedBodies ==
  {[bedNumber |-> n, ward |-> "icu", status |-> "available", patientId |-> NULL] :
     n \in {<<"X", "9", "9">>, SeedBed(1).bedNumber}}
PostBedBodies ==
  ValidBedBodies
    \cup {[bedNumber |-> <<"X", "9", "9">>, ward |-> "icu", status |-> "available",
           patientId |-> NULL, admin |-> TRUE]}
    \cup {[ward |-> "icu"]}
PutBedBodies ==
  {<<>>, [status |-> "occupied", patientId |-> 1], [admin |-> TRUE]}
BedIdParams == {1} \cup (NumSeedBeds + 1)..(NumSeedBeds + MaxRecords)

\* GET /api/beds registered without ensureAuthenticated
getBedsRouteOpen(caller, fails) ==
  IF fails THEN Escaped ELSE Answer(200, getAllBeds)

\* GET /api/beds
getBedsRoute(caller, fails) ==
  IF ~ensureAuthenticated(caller) THEN Answer(401, <<>>)
  ELSE IF fails THEN Escaped
  ELSE Answer(200, getAllBeds)

\* GET /api/beds/ward/:ward
getBedsByWardRoute(caller, ward, fails) ==
  IF ~ensureAuthenticated(caller) THEN Answer(401, <<>>)
  ELSE IF fails THEN Escaped
  ELSE Answer(200, getBedsByWard(ward))

\* GET /api/beds/status/:status
getBedsByStatusRoute(caller, status, fails) ==
  IF ~ensureAuthenticated(caller) THEN Answer(401, <<>>)
  ELSE IF fails THEN Escaped
  ELSE Answer(200, getBedsByStatus(status))

GetBeds ==
  /\ \E caller \in Callers, fails \in BOOLEAN :
       \/ getBedsRoute(caller, fails).status \in StatusCodes
       \/ \E ward \in {"icu", "general", "nowhere"} :
            getBedsByWardRoute(caller, ward, fails).status \in StatusCodes
       \/ \E status \in {"available", "occupied"} :
            getBedsByStatusRoute(caller, status, fails).status \in StatusCodes
  /\ UNCHANGED vars

\* POST /api/beds
postBedRoute(caller, body, fails) ==
  LET keep(answer) == Leaving(answer, beds, bedIdCounter)
  IN IF ~ensureAuthenticated(caller) THEN keep(Answer(401, <<>>))
     ELSE IF ~checkRole({"doctor", "nurse"}, caller) THEN keep(Answer(403, <<>>))
     ELSE LET validated == handleValidation(insertBedSchema, body)
              bedData == validated.data
          IN IF ~validated.ok THEN keep(Answer(400, <<>>))
             ELSE IF fails THEN keep(Caught)
             ELSE LET created == createBed(bedData)
                  IN Leaving(Answer(201, <<created.ret>>), created.map, created.counter)

PostBed ==
  /\ RecordsCreated < MaxRecords
  /\ \E caller \in Callers, body \in PostBedBodies, fails \in BOOLEAN :
       LET done == postBedRoute(caller, body, fails)
       IN /\ beds' = done.map
          /\ bedIdCounter' = done.counter
  /\ UNCHANGED <<requests, tz, users, appointments, prescriptions, doctorSchedules,
                 userIdCounter, appointmentIdCounter, prescriptionIdCounter,
                 scheduleIdCounter>>

\* PUT /api/beds/:id with the role checked after the bed was looked up
putBedRouteLookupFirst(caller, id, body, fails) ==
  LET keep(answer) == Leaving(answer, beds, bedIdCounter)
  IN IF ~ensureAuthenticated(caller) THEN keep(Answer(401, <<>>))
     ELSE IF fails THEN keep(Caught)
     ELSE IF getBed(id) = <<>> THEN keep(Answer(404, <<>>))
     ELSE IF ~checkRole({"doctor", "nurse"}, caller) THEN keep(Answer(403, <<>>))
     ELSE LET updated == updateBed(id, body)
          IN Leaving(Answer(200, updated.ret), updated.map, bedIdCounter)

\* PUT /api/beds/:id
putBedRoute(caller, id, body, fails) ==
  LET keep(answer) == Leaving(answer, beds, bedIdCounter)
  IN IF ~ensureAuthenticated(caller) THEN keep(Answer(401, <<>>))
     ELSE IF ~checkRole({"doctor", "nurse"}, caller) THEN keep(Answer(403, <<>>))
     ELSE IF fails THEN keep(Caught)
     ELSE LET bed == getBed(id)
          IN IF bed = <<>> THEN keep(Answer(404, <<>>))
             ELSE LET updated == updateBed(id, body)
                  IN Leaving(Answer(200, updated.ret), updated.map, bedIdCounter)

PutBed ==
  /\ \E caller \in Callers, id \in BedIdParams, body \in PutBedBodies,
        fails \in BOOLEAN :
       beds' = putBedRoute(caller, id, body, fails).map
  /\ UNCHANGED <<requests, tz, users, appointments, prescriptions, doctorSchedules,
                 userIdCounter, appointmentIdCounter, bedIdCounter,
                 prescriptionIdCounter, scheduleIdCounter>>

NextBeds ==
  \/ CreateUser
  \/ GetBeds
  \/ PostBed
  \/ PutBed

SpecBeds == InitUTC /\ [][NextBeds]_vars

(***************************************************************************)
(* Prescription routes.                                                    *)
(***************************************************************************)
ValidPrescriptionBodies ==
  {[patientId |-> p, doctorId |-> d, prescriptionDate |-> IsoString(36),
    status |-> "active"] : p \in PayloadIds, d \in PayloadIds}
PostPrescriptionBodies ==
  ValidPrescriptionBodies
    \cup {Spread(b, [admin |-> TRUE]) :
            b \in {v \in ValidPrescriptionBodies : v.patientId = 1}}
    \cup {[doctorId |-> d] : d \in PayloadIds}
    \cup {[status |-> "active"]}
PutPrescriptionBodies ==
  {<<>>, [status |-> "completed"], [admin |-> TRUE]}
    \cup {[doctorId |-> d] : d \in PayloadIds}
PrescriptionIdParams == 1..MaxRecords

\* the nurse branch: for (const doctorId of doctorIds) push(...)
RECURSIVE prescriptionsOfDoctors(_)
prescriptionsOfDoctors(doctorIds) ==
  IF doctorIds = <<>> THEN <<>>
  ELSE getPrescriptionsByDoctor(Head(doctorIds)) \o prescriptionsOfDoctors(Tail(doctorIds))

\* GET /api/prescriptions
getPrescriptionsRoute(caller, fails) ==
  IF ~ensureAuthenticated(caller) THEN Answer(401, <<>>)
  ELSE IF fails THEN Escaped
  ELSE IF RoleOf(caller) = "patient" THEN Answer(200, getPrescriptionsByPatient(caller))
  ELSE IF RoleOf(caller) = "doctor" THEN Answer(200, getPrescriptionsByDoctor(caller))
  ELSE Answer(200, prescriptionsOfDoctors(IdsOf(getUsersByRole("doctor"))))

\* GET /api/prescriptions/:id
getPrescriptionRoute(caller, id, fails) ==
  IF ~ensureAuthenticated(caller) THEN Answer(401, <<>>)
  ELSE IF fails THEN Caught
  ELSE LET prescription == getPrescription(id)
       IN IF prescription = <<>> THEN Answer(404, <<>>)
          ELSE IF RoleOf(caller) = "patient" /\ prescription[1].patientId # caller
                 THEN Answer(403, <<>>)
          ELSE Answer(200, prescription)

GetPrescriptions ==
  /\ \E caller \in Callers, fails \in BOOLEAN :
       \/ getPrescriptionsRoute(caller, fails).status \in StatusCodes
       \/ \E id \in PrescriptionIdParams :
            getPrescriptionRoute(caller, id, fails).status \in StatusCodes
  /\ UNCHANGED vars

\* POST /api/prescriptions without the comparison of doctorId and caller
postPrescriptionRouteAnyDoctor(caller, body, fails) ==
  LET keep(answer) == Leaving(answer, prescriptions, prescriptionIdCounter)
  IN IF ~ensureAuthenticated(caller) THEN keep(Answer(401, <<>>))
     ELSE IF ~checkRole({"doctor"}, caller) THEN keep(Answer(403, <<>>))
     ELSE LET validated == handleValidation(insertPrescriptionSchema, body)
          IN IF ~validated.ok THEN keep(Answer(400, <<>>))
             ELSE IF fails THEN keep(Caught)
             ELSE LET created == createPrescription(validated.data)
                  IN Leaving(Answer(201, <<created.ret>>), created.map, created.counter)

\* POST /api/prescriptions
postPrescriptionRoute(caller, body, fails) ==
  LET keep(answer) == Leaving(answer, prescriptions, prescriptionIdCounter)
  IN IF ~ensureAuthenticated(caller) THEN keep(Answer(401, <<>>))
     ELSE IF ~checkRole({"doctor"}, caller) THEN keep(Answer(403, <<>>))
     ELSE LET validated == handleValidation(insertPrescriptionSchema, body)
              prescriptionData == validated.data
          IN IF ~validated.ok THEN keep(Answer(400, <<>>))
             ELSE IF prescriptionData.doctorId # caller THEN keep(Answer(403, <<>>))
             ELSE IF fails THEN keep(Caught)
             ELSE LET created == createPrescription(prescriptionData)
                  IN Leaving(Answer(201, <<created.ret>>), created.map, created.counter)

PostPrescription ==
  /\ RecordsCreated < MaxRecords
  /\ \E caller \in Callers, body \in PostPrescriptionBodies, fails \in BOOLEAN :
       LET done == postPrescriptionRoute(caller, body, fails)
       IN /\ prescriptions' = done.map
          /\ prescriptionIdCounter' = done.counter
  /\ UNCHANGED <<requests, tz, users, appointments, beds, doctorSchedules, userIdCounter,
                 appointmentIdCounter, bedIdCounter, scheduleIdCounter>>

\* PUT /api/prescriptions/:id with ownership read from the payload when it
\* carries a doctorId
putPrescriptionRouteByPayload(caller, id, body, fails) ==
  LET keep(answer) == Leaving(answer, prescriptions, prescriptionIdCounter)
  IN IF ~ensureAuthenticated(caller) THEN keep(Answer(401, <<>>))
     ELSE IF ~checkRole({"doctor"}, caller) THEN keep(Answer(403, <<>>))
     ELSE IF fails THEN keep(Caught)
     ELSE LET prescription == getPrescription(id)
              owner == IF "doctorId" \in DOMAIN body THEN body.doctorId
                       ELSE prescription[1].doctorId
          IN IF prescription = <<>> THEN keep(Answer(404, <<>>))
             ELSE IF owner # caller THEN keep(Answer(403, <<>>))
             ELSE LET updated == updatePrescription(id, body)
                  IN Leaving(Answer(200, updated.ret), updated.map, prescriptionIdCounter)

\* PUT /api/prescriptions/:id
putPrescriptionRoute(caller, id, body, fails) ==
  LET keep(answer) == Leaving(answer, prescriptions, prescriptionIdCounter)
  IN IF ~ensureAuthenticated(caller) THEN keep(Answer(401, <<>>))
     ELSE IF ~checkRole({"doctor"}, caller) THEN keep(Answer(403, <<>>))
     ELSE IF fails THEN keep(Caught)
     ELSE LET prescription == getPrescription(id)
          IN IF prescription = <<>> THEN keep(Answer(404, <<>>))
             ELSE IF prescription[1].doctorId # caller THEN keep(Answer(403, <<>>))
             ELSE LET updated == updatePrescription(id, body)
                  IN Leaving(Answer(200, updated.ret), updated.map, prescriptionIdCounter)

PutPrescription ==
  /\ \E caller \in Callers, id \in PrescriptionIdParams,
        body \in PutPrescriptionBodies, fails \in BOOLEAN :
       prescriptions' = putPrescriptionRoute(caller, id, body, fails).map
  /\ UNCHANGED <<requests, tz, users, appointments, beds, doctorSchedules, userIdCounter,
                 appointmentIdCounter, bedIdCounter, prescriptionIdCounter,
                 scheduleIdCounter>>

NextPrescriptions ==
  \/ CreateUser
  \/ GetPrescriptions
  \/ PostPrescription
  \/ PutPrescription

SpecPrescriptions == InitUTC /\ [][NextPrescriptions]_vars

(***************************************************************************)
(* Doctor schedule routes.                                                 *)
(***************************************************************************)
ValidScheduleBodies ==
  {[doctorId |-> d, day |-> "monday", startTime |-> "09:00", endTime |-> "17:00",
    activityType |-> "clinic"] : d \in PayloadIds}
PostScheduleBodies ==
  ValidScheduleBodies
    \cup {Spread(b, [admin |-> TRUE]) : b \in {v \in ValidScheduleBodies : v.doctorId = 1}}
    \cup {[doctorId |-> d] : d \in PayloadIds}
    \cup {[day |-> "monday"]}
PutScheduleBodies ==
  {<<>>, [day |-> "tuesday"], [admin |-> TRUE]}
    \cup {[doctorId |-> d] : d \in PayloadIds}
ScheduleIdParams == 1..MaxRecords

\* for (const doctor of doctors) allSchedules.push(...)
RECURSIVE schedulesOfDoctors(_)
schedulesOfDoctors(doctors) ==
  IF doctors = <<>> THEN <<>>
  ELSE getDoctorSchedulesByDoctor(Head(doctors).id) \o schedulesOfDoctors(Tail(doctors))

\* GET /api/schedules without the branch for doctors
getSchedulesRouteFanOutOnly(caller, fails) ==
  IF ~ensureAuthenticated(caller) THEN Answer(401, <<>>)
  ELSE IF fails THEN Escaped
  ELSE Answer(200, schedulesOfDoctors(getUsersByRole("doctor")))

\* GET /api/schedules
getSchedulesRoute(caller, fails) ==
  IF ~ensureAuthenticated(caller) THEN Answer(401, <<>>)
  ELSE IF fails THEN Escaped
  ELSE IF RoleOf(caller) = "doctor" THEN Answer(200, getDoctorSchedulesByDoctor(caller))
  ELSE Answer(200, schedulesOfDoctors(getUsersByRole("doctor")))

\* GET /api/schedules/doctor/:id
getSchedulesByDoctorRoute(caller, doctorId, fails) ==
  IF ~ensureAuthenticated(caller) THEN Answer(401, <<>>)
  ELSE IF fails THEN Caught
  ELSE Answer(200, getDoctorSchedulesByDoctor(doctorId))

GetSchedules ==
  /\ \E caller \in Callers, fails \in BOOLEAN :
       \/ getSchedulesRoute(caller, fails).status \in StatusCodes
       \/ \E doctorId \in PayloadIds :
            getSchedulesByDoctorRoute(caller, doctorId, fails).status \in StatusCodes
  /\ UNCHANGED vars

\* POST /api/schedules
postScheduleRoute(caller, body, fails) ==
  LET keep(answer) == Leaving(answer, doctorSchedules, scheduleIdCounter)
  IN IF ~ensureAuthenticated(caller) THEN keep(Answer(401, <<>>))
     ELSE IF ~checkRole({"doctor", "nurse"}, caller) THEN keep(Answer(403, <<>>))
     ELSE LET validated == handleValidation(insertDoctorScheduleSchema, body)
              scheduleData == validated.data
          IN IF ~validated.ok THEN keep(Answer(400, <<>>))
             ELSE IF RoleOf(caller) = "doctor" /\ scheduleData.doctorId # caller
                    THEN keep(Answer(403, <<>>))
             ELSE IF fails THEN keep(Caught)
             ELSE LET created == createDoctorSchedule(scheduleData)
                  IN Leaving(Answer(201, <<created.ret>>), created.map, created.counter)

PostSchedule ==
  /\ RecordsCreated < MaxRecords
  /\ \E caller \in Callers, body \in PostScheduleBodies, fails \in BOOLEAN :
       LET done == postScheduleRoute(caller, body, fails)
       IN /\ doctorSchedules' = done.map
          /\ scheduleIdCounter' = done.counter
  /\ UNCHANGED <<requests, tz, users, appointments, beds, prescriptions, userIdCounter,
                 appointmentIdCounter, bedIdCounter, prescriptionIdCounter>>

\* PUT /api/schedules/:id
putScheduleRoute(caller, id, body, fails) ==
  LET keep(answer) == Leaving(answer, doctorSchedules, scheduleIdCounter)
  IN IF ~ensureAuthenticated(caller) THEN keep(Answer(401, <<>>))
     ELSE IF ~checkRole({"doctor", "nurse"}, caller) THEN keep(Answer(403, <<>>))
     ELSE IF fails THEN keep(Caught)
     ELSE LET schedule == getDoctorSchedule(id)
          IN IF schedule = <<>> THEN keep(Answer(404, <<>>))
             ELSE IF RoleOf(caller) = "doctor" /\ schedule[1].doctorId # caller
                    THEN keep(Answer(403, <<>>))
             ELSE LET updated == updateDoctorSchedule(id, body)
                  IN Leaving(Answer(200, updated.ret), updated.map, scheduleIdCounter)

PutSchedule ==
  /\ \E caller \in Callers, id \in ScheduleIdParams, body \in PutScheduleBodies,
        fails \in BOOLEAN :
       doctorSchedules' = putScheduleRoute(caller, id, body, fails).map
  /\ UNCHANGED <<requests, tz, users, appointments, beds, prescriptions, userIdCounter,
                 appointmentIdCounter, bedIdCounter, prescriptionIdCounter,
                 scheduleIdCounter>>

\* DELETE /api/schedules/:id without the doctor ownership check
deleteScheduleRouteUnchecked(caller, id, fails) ==
  LET keep(answer) == Leaving(answer, doctorSchedules, scheduleIdCounter)
  IN IF ~ensureAuthenticated(caller) THEN keep(Answer(401, <<>>))
     ELSE IF ~checkRole({"doctor", "nurse"}, caller) THEN keep(Answer(403, <<>>))
     ELSE IF fails THEN keep(Caught)
     ELSE IF getDoctorSchedule(id) = <<>> THEN keep(Answer(404, <<>>))
     ELSE LET deleted == deleteDoctorSchedule(id)
          IN IF deleted.ret
             THEN Leaving(Answer(204, <<>>), deleted.map, scheduleIdCounter)
             ELSE Leaving(Answer(404, <<>>), deleted.map, scheduleIdCounter)

\* DELETE /api/schedules/:id
deleteScheduleRoute(caller, id, fails) ==
  LET keep(answer) == Leaving(answer, doctorSchedules, scheduleIdCounter)
  IN IF ~ensureAuthenticated(caller) THEN keep(Answer(401, <<>>))
     ELSE IF ~checkRole({"doctor", "nurse"}, caller) THEN keep(Answer(403, <<>>))
     ELSE IF fails THEN keep(Caught)
     ELSE LET schedule == getDoctorSchedule(id)
          IN IF schedule = <<>> THEN keep(Answer(404, <<>>))
             ELSE IF RoleOf(caller) = "doctor" /\ schedule[1].doctorId # caller
                    THEN keep(Answer(403, <<>>))
             ELSE LET deleted == deleteDoctorSchedule(id)
                  IN IF deleted.ret
                     THEN Leaving(Answer(204, <<>>), deleted.map, scheduleIdCounter)
                     ELSE Leaving(Answer(404, <<>>), deleted.map, scheduleIdCounter)

DeleteSchedule ==
  /\ \E caller \in Callers, id \in ScheduleIdParams, fails \in BOOLEAN :
       doctorSchedules' = deleteScheduleRoute(caller, id, fails).map
  /\ UNCHANGED <<requests, tz, users, appointments, beds, prescriptions, userIdCounter,
                 appointmentIdCounter, bedIdCounter, prescriptionIdCounter,
                 scheduleIdCounter>>

NextSchedules ==
  \/ CreateUser
  \/ GetSchedules
  \/ PostSchedule
  \/ PutSchedule
  \/ DeleteSchedule

SpecSchedules == InitUTC /\ [][NextSchedules]_vars

\* the creation routes of the three owned resources
NextPost ==
  \/ CreateUser
  \/ PostAppointment
  \/ PostPrescription
  \/ PostSchedule

SpecPost == InitUTC /\ [][NextPost]_vars

(***************************************************************************)
(* User routes.                                                            *)
(***************************************************************************)
\* the user passed to the response as stored
WithEveryField(user) == user

\* ({ password, ...rest }) => rest
WithoutPassword(user) == [f \in DOMAIN user \ {"password"} |-> user[f]]
withoutPasswords(list) == [i \in 1..Len(list) |-> WithoutPassword(list[i])]

\* GET /api/users/doctors
getDoctorsRoute(caller, fails) ==
  IF ~ensureAuthenticated(caller) THEN Answer(401, <<>>)
  ELSE IF fails THEN Escaped
  ELSE Answer(200, withoutPasswords(getUsersByRole("doctor")))

\* GET /api/users/patients
getPatientsRoute(caller, fails) ==
  IF ~ensureAuthenticated(caller) THEN Answer(401, <<>>)
  ELSE IF ~checkRole({"doctor", "nurse"}, caller) THEN Answer(403, <<>>)
  ELSE IF fails THEN Escaped
  ELSE Answer(200, withoutPasswords(getUsersByRole("patient")))

GetUsers ==
  /\ \E caller \in Callers, fails \in BOOLEAN :
       \/ getDoctorsRoute(caller, fails).status \in StatusCodes
       \/ getPatientsRoute(caller, fails).status \in StatusCodes
  /\ UNCHANGED vars

\* the user routes beside the creation routes: every collection filled
NextAccess ==
  \/ CreateUser
  \/ GetUsers
  \/ PostAppointment
  \/ PostPrescription
  \/ PostSchedule

SpecAccess == InitUTC /\ [][NextAccess]_vars

(***************************************************************************)
(* The store alone: every create, update and delete method called          *)
(* directly, as the routes and the rest of the server may call them.       *)
(***************************************************************************)
StoreCreate ==
  /\ RecordsCreated < MaxRecords
  /\ \/ /\ \E insertAppointment \in ValidAppointmentBodies :
             LET created == createAppointment(insertAppointment)
             IN /\ appointments' = created.map
                /\ appointmentIdCounter' = created.counter
        /\ UNCHANGED <<beds, bedIdCounter, prescriptions, prescriptionIdCounter,
                       doctorSchedules, scheduleIdCounter>>
     \/ /\ \E insertBed \in ValidBedBodies :
             LET created == createBed(insertBed)
             IN /\ beds' = created.map
                /\ bedIdCounter' = created.counter
        /\ UNCHANGED <<appointments, appointmentIdCounter, prescriptions,
                       prescriptionIdCounter, doctorSchedules, scheduleIdCounter>>
     \/ /\ \E insertPrescription \in ValidPrescriptionBodies :
             LET created == createPrescription(insertPrescription)
             IN /\ prescriptions' = created.map
                /\ prescriptionIdCounter' = created.counter
        /\ UNCHANGED <<appointments, appointmentIdCounter, beds, bedIdCounter,
                       doctorSchedules, scheduleIdCounter>>
     \/ /\ \E insertSchedule \in ValidScheduleBodies :
             LET created == createDoctorSchedule(insertSchedule)
             IN /\ doctorSchedules' = created.map
                /\ scheduleIdCounter' = created.counter
        /\ UNCHANGED <<appointments, appointmentIdCounter, beds, bedIdCounter,
                       prescriptions, prescriptionIdCounter>>
  /\ UNCHANGED <<requests, tz, users, userIdCounter>>

StoreUpdate ==
  /\ \/ /\ \E id \in AppointmentIdParams, appointmentUpdate \in PutAppointmentBodies :
             appointments' = updateAppointment(id, appointmentUpdate).map
        /\ UNCHANGED <<beds, prescriptions, doctorSchedules>>
     \/ /\ \E id \in BedIdParams, bedUpdate \in PutBedBodies :
             beds' = updateBed(id, bedUpdate).map
        /\ UNCHANGED <<appointments, prescriptions, doctorSchedules>>
     \/ /\ \E id \in PrescriptionIdParams, prescriptionUpdate \in PutPrescriptionBodies :
             prescriptions' = updatePrescription(id, prescriptionUpdate).map
        /\ UNCHANGED <<appointments, beds, doctorSchedules>>
     \/ /\ \E id \in ScheduleIdParams, scheduleUpdate \in PutScheduleBodies :
             doctorSchedules' = updateDoctorSchedule(id, scheduleUpdate).map
        /\ UNCHANGED <<appointments, beds, prescriptions>>
  /\ UNCHANGED <<requests, tz, users, userIdCounter, appointmentIdCounter, bedIdCounter,
                 prescriptionIdCounter, scheduleIdCounter>>

StoreDelete ==
  /\ \/ /\ \E id \in AppointmentIdParams : appointments' = deleteAppointment(id).map
        /\ UNCHANGED doctorSchedules
     \/ /\ \E id \in ScheduleIdParams : doctorSchedules' = deleteDoctorSchedule(id).map
        /\ UNCHANGED appointments
  /\ UNCHANGED <<requests, tz, users, beds, prescriptions, userIdCounter, appointmentIdCounter,
                 bedIdCounter, prescriptionIdCounter, scheduleIdCounter>>

NextStore ==
  \/ StoreCreate
  \/ StoreUpdate
  \/ StoreDelete

SpecStore == InitUTC /\ [][NextStore]_vars

(***************************************************************************)
(* Properties.                                                             *)
(***************************************************************************)
Elems(seq) == {seq[i] : i \in 1..Len(seq)}
Authenticated == MapKeys(users)
CallersOfRole(role) == {caller \in Authenticated : RoleOf(caller) = role}

\* C1: a patient who calls an appointment or prescription list endpoint
\* (GET /api/appointments, GET /api/appointments/date/:date,
\* GET /api/prescriptions) never receives a record whose patientId differs
\* from the patient's own id.
C1_PatientListsOnlyOwn ==
  \A caller \in CallersOfRole("patient") :
    /\ \A r \in Elems(getAppointmentsRoute(caller, FALSE).result) : r.patientId = caller
    /\ \A day \in QueryDays :
         \A r \in Elems(getAppointmentsByDateRoute(caller, day, FALSE).result) :
           r.patientId = caller
    /\ \A r \in Elems(getPrescriptionsRoute(caller, FALSE).result) : r.patientId = caller

\* the beds of the claimed seed: wards cycling from firstWard on, numbered by
\* ward initial and two decimal digits
Digits == <<"0", "1", "2", "3", "4", "5", "6", "7", "8", "9">>
SeedAsListed(cycle, initials) ==
  LET all == getAllBeds
  IN /\ Len(all) = 20
     /\ \A i \in 1..20 :
          /\ all[i].status = "available"
          /\ all[i].patientId = NULL
          /\ all[i].ward = cycle[((i - 1) % 4) + 1]
          /\ all[i].bedNumber =
               <<initials[((i - 1) % 4) + 1], Digits[(i \div 10) + 1], Digits[(i % 10) + 1]>>

\* no user has registered: every request so far was answered 401 and the
\* store is as the constructor left it
BeforeAnyRequest == users = <<>>

\* C2 (as stated): right after construction getAllBeds returns 20 available,
\* unassigned beds whose wards cycle general, icu, pediatric, maternity from
\* the first bed on, numbered G01, I02, P03, M04, G05, ...
C2_SeedStartsWithGeneral ==
  BeforeAnyRequest =>
    SeedAsListed(<<"general", "icu", "pediatric", "maternity">>, <<"G", "I", "P", "M">>)

\* C2 (amended): right after construction getAllBeds returns 20 available,
\* unassigned beds in creation order whose wards cycle icu, pediatric,
\* maternity, general from the first bed on, numbered I01, P02, M03, G04,
\* I05, ...
C2_SeedStartsWithIcu ==
  BeforeAnyRequest =>
    SeedAsListed(<<"icu", "pediatric", "maternity", "general">>, <<"I", "P", "M", "G">>)

C2_Witness ==
  /\ BeforeAnyRequest
  /\ Len(getAllBeds) = 20
  /\ getAllBeds[1].bedNumber = <<"I", "0", "1">>
  /\ getAllBeds[20].bedNumber = <<"G", "2", "0">>

\* the status of a creation request whose stages are taken in the listed
\* order: "policy" is the ownership check, "validation" the schema check
StagedStatus(order, authenticated, roleAllowed, valid, owns, fails) ==
  IF ~authenticated THEN 401
  ELSE IF ~roleAllowed THEN 403
  ELSE IF order = "policy first"
    THEN (IF ~owns THEN 403 ELSE IF ~valid THEN 400 ELSE IF fails THEN 500 ELSE 201)
    ELSE (IF ~valid THEN 400 ELSE IF ~owns THEN 403 ELSE IF fails THEN 500 ELSE 201)

\* the payload names the caller in its owner field
Names(body, field, caller) == field \in DOMAIN body /\ body[field] = caller

PostStatusesFollow(order) ==
  \A caller \in Callers, fails \in BOOLEAN :
    /\ \A body \in PostAppointmentBodies :
         postAppointmentRoute(caller, body, fails).status =
           StagedStatus(order, caller # Anonymous, TRUE,
                        SchemaAccepts(insertAppointmentSchema, body),
                        caller # Anonymous /\
                          (RoleOf(caller) = "patient" => Names(body, "patientId", caller)),
                        fails)
    /\ \A body \in PostPrescriptionBodies :
         postPrescriptionRoute(caller, body, fails).status =
           StagedStatus(order, caller # Anonymous,
                        caller # Anonymous /\ RoleOf(caller) = "doctor",
                        SchemaAccepts(insertPrescriptionSchema, body),
                        Names(body, "doctorId", caller), fails)
    /\ \A body \in PostScheduleBodies :
         postScheduleRoute(caller, body, fails).status =
           StagedStatus(order, caller # Anonymous,
                        caller # Anonymous /\ RoleOf(caller) \in {"doctor", "nurse"},
                        SchemaAccepts(insertDoctorScheduleSchema, body),
                        caller # Anonymous /\
                          (RoleOf(caller) = "doctor" => Names(body, "doctorId", caller)),
                        fails)

AllowList(schema) == schema.required \cup schema.optional \cup {"id"}

\* C4: after any sequence of POST and PUT requests with arbitrary payloads
\* every stored record carries only the fields of its entity's allow-list
\* plus id.
C4_OnlyAllowListedFields ==
  /\ \A r \in Elems(MapValues(appointments)) : DOMAIN r \subseteq AllowList(insertAppointmentSchema)
  /\ \A r \in Elems(MapValues(beds)) : DOMAIN r \subseteq AllowList(insertBedSchema)
  /\ \A r \in Elems(MapValues(prescriptions)) : DOMAIN r \subseteq AllowList(insertPrescriptionSchema)
  /\ \A r \in Elems(MapValues(doctorSchedules)) : DOMAIN r \subseteq AllowList(insertDoctorScheduleSchema)

\* C5: on every route, a store call that fails while the request is handled
\* is translated by the handler into one response with status 500.
C5_StoreFailureAnswered500 ==
  \A caller \in Authenticated :
    LET answers ==
          {getAppointmentsRoute(caller, TRUE), getPrescriptionsRoute(caller, TRUE),
           getBedsRoute(caller, TRUE), getSchedulesRoute(caller, TRUE)}
            \cup {getAppointmentsByDateRoute(caller, day, TRUE) : day \in QueryDays}
            \cup {getPrescriptionRoute(caller, id, TRUE) : id \in PrescriptionIdParams}
            \cup {getSchedulesByDoctorRoute(caller, d, TRUE) : d \in PayloadIds}
        leavings ==
          {postAppointmentRoute(caller, body, TRUE) : body \in PostAppointmentBodies}
            \cup {putAppointmentRoute(caller, ib[1], ib[2], TRUE) :
                    ib \in AppointmentIdParams \X PutAppointmentBodies}
            \cup {deleteAppointmentRoute(caller, id, TRUE) : id \in AppointmentIdParams}
    IN /\ \A answer \in answers : answer.failed => answer.status = 500
       /\ \A leaving \in leavings : leaving.failed => leaving.status = 500

\* the calendar day, in the server's time zone, an instant falls on
LocalDay(instant) == (instant + tz) \div HoursPerDay

\* C6: for every day given as the path parameter and every server time zone,
\* GET /api/appointments/date/:date returns exactly the stored appointments
\* whose appointmentDate falls on that day in the server's time zone.
C6_DateRouteReturnsThatLocalDay ==
  \A caller \in Authenticated, day \in QueryDays :
    LET answer == getAppointmentsByDateRoute(caller, day, FALSE)
        onDay(a) == LocalDay(GetTime(NewDate(a.appointmentDate))) = day
    IN /\ answer.status = 200
       /\ answer.result = SelectSeq(MapValues(appointments), onDay)

\* what update(id, partial) gave (ret, map) from the map before
MergedOrNotFound(before, id, partial, updated) ==
  IF \E i \in 1..Len(before) : before[i][1] = id
  THEN LET old == (CHOOSE e \in Elems(before) : e[1] = id)[2]
       IN /\ Len(updated.ret) = 1
          /\ DOMAIN updated.ret[1] = DOMAIN old \cup DOMAIN partial
          /\ \A f \in DOMAIN partial : updated.ret[1][f] = partial[f]
          /\ \A f \in DOMAIN old \ DOMAIN partial : updated.ret[1][f] = old[f]
          /\ Len(updated.map) = Len(before)
          /\ \A i \in 1..Len(before) :
               /\ updated.map[i][1] = before[i][1]
               /\ updated.map[i][2] =
                    IF before[i][1] = id THEN updated.ret[1] ELSE before[i][2]
  ELSE updated.ret = <<>> /\ updated.map = before

\* C7: for appointments, beds, prescriptions and schedules, update(id,
\* partial) on an existing id stores a record in which every field of partial
\* has partial's value and every other field its previous value, and changes
\* no other record; on a non-existent id it returns not-found and leaves the
\* collection as it was.
C7_UpdateMergesOrNotFound ==
  /\ \A id \in AppointmentIdParams, partial \in PutAppointmentBodies :
       MergedOrNotFound(appointments, id, partial, updateAppointment(id, partial))
  /\ \A id \in BedIdParams, partial \in PutBedBodies :
       MergedOrNotFound(beds, id, partial, updateBed(id, partial))
  /\ \A id \in PrescriptionIdParams, partial \in PutPrescriptionBodies :
       MergedOrNotFound(prescriptions, id, partial, updatePrescription(id, partial))
  /\ \A id \in ScheduleIdParams, partial \in PutScheduleBodies :
       MergedOrNotFound(doctorSchedules, id, partial, updateDoctorSchedule(id, partial))

C7_Witness ==
  /\ \E r \in Elems(MapValues(appointments)) :
       r.status = "cancelled" /\ "doctorId" \in DOMAIN r /\ "admin" \in DOMAIN r
  /\ \E id \in AppointmentIdParams : updateAppointment(id, <<>>).ret = <<>>
  /\ \E r \in Elems(MapValues(beds)) : r.status = "occupied"

\* the position of a key in a map's iteration order
PositionIn(map, key) == CHOOSE i \in 1..Len(map) : map[i][1] = key
\* the keys of the schedule entries whose doctorId is the id of a doctor user
SchedulesOfDoctorUsers ==
  {k \in MapKeys(doctorSchedules) :
     \E u \in CallersOfRole("doctor") : MapGet(doctorSchedules, k).doctorId = u}

\* C8: a nurse's GET /api/schedules returns every schedule entry of a doctor
\* user exactly once and nothing else, doctor by doctor in the order of the
\* users collection, each doctor's entries in the order of the schedules
\* collection.
C8_NurseSeesEveryDoctorsSchedules ==
  \A caller \in CallersOfRole("nurse") :
    LET answer == getSchedulesRoute(caller, FALSE)
        R == answer.result
    IN /\ answer.status = 200
       /\ Len(R) = Cardinality(SchedulesOfDoctorUsers)
       /\ \A k \in SchedulesOfDoctorUsers :
            Cardinality({i \in 1..Len(R) : R[i] = MapGet(doctorSchedules, k)}) = 1
       /\ \A i, j \in 1..Len(R) :
            i < j =>
              \/ PositionIn(users, R[i].doctorId) < PositionIn(users, R[j].doctorId)
              \/ /\ R[i].doctorId = R[j].doctorId
                 /\ PositionIn(doctorSchedules, R[i].id) < PositionIn(doctorSchedules, R[j].id)

C8_Witness ==
  \E caller \in CallersOfRole("nurse") :
    LET R == getSchedulesRoute(caller, FALSE).result
    IN Len(R) = 2 /\ R[1].doctorId # R[2].doctorId /\ R[1].id > R[2].id

\* the record stored under id carries every field of the payload
Applied(map, id, body) ==
  /\ MapHas(map, id)
  /\ \A f \in DOMAIN body : MapGet(map, id)[f] = body[f]

\* C9: a patient's PUT or DELETE on an existing appointment takes effect
\* only if the stored patientId is the caller's id, and is otherwise answered
\* 403 with the appointment unchanged; a doctor's or nurse's PUT or DELETE
\* takes effect on any existing appointment.
C9_PatientMutatesOnlyOwnAppointments ==
  \A caller \in Authenticated, id \in MapKeys(appointments) :
    LET allowed == RoleOf(caller) = "patient" => MapGet(appointments, id).patientId = caller
        deleted == deleteAppointmentRoute(caller, id, FALSE)
    IN /\ \A body \in PutAppointmentBodies :
            LET put == putAppointmentRoute(caller, id, body, FALSE)
            IN IF allowed
               THEN put.status = 200 /\ Applied(put.map, id, body)
               ELSE put.status = 403 /\ put.map = appointments
       /\ IF allowed
          THEN deleted.status = 204 /\ ~MapHas(deleted.map, id)
          ELSE deleted.status = 403 /\ deleted.map = appointments

C9_Witness ==
  /\ \E caller \in CallersOfRole("patient"), id \in MapKeys(appointments) :
       /\ MapGet(appointments, id).patientId # caller
       /\ putAppointmentRoute(caller, id, [status |-> "cancelled"], FALSE).status = 403
       /\ deleteAppointmentRoute(caller, id, FALSE).status = 403
  /\ \E caller \in CallersOfRole("patient"), id \in MapKeys(appointments) :
       /\ MapGet(appointments, id).patientId = caller
       /\ MapGet(appointments, id).status = "cancelled"
  /\ \E caller \in CallersOfRole("doctor"), id \in MapKeys(appointments) :
       /\ MapGet(appointments, id).doctorId # caller
       /\ deleteAppointmentRoute(caller, id, FALSE).status = 204

\* C10: PUT /api/prescriptions/:id on an existing prescription takes effect
\* only when the caller is a doctor and the stored doctorId is the caller's
\* id, whatever doctorId the payload carries; any other caller is answered
\* 403 and the prescription is unchanged.
C10_PrescriptionUpdateByStoredOwner ==
  \A caller \in Authenticated, id \in MapKeys(prescriptions),
     body \in PutPrescriptionBodies :
    LET put == putPrescriptionRoute(caller, id, body, FALSE)
    IN IF RoleOf(caller) = "doctor" /\ MapGet(prescriptions, id).doctorId = caller
       THEN put.status = 200 /\ Applied(put.map, id, body)
       ELSE put.status = 403 /\ put.map = prescriptions

C10_Witness ==
  /\ \E caller \in CallersOfRole("doctor"), id \in MapKeys(prescriptions) :
       /\ MapGet(prescriptions, id).doctorId # caller
       /\ putPrescriptionRoute(caller, id, [doctorId |-> caller], FALSE).status = 403
  /\ \E caller \in CallersOfRole("doctor"), id \in MapKeys(prescriptions) :
       /\ MapGet(prescriptions, id).doctorId = caller
       /\ MapGet(prescriptions, id).status = "completed"
       /\ \E d \in PayloadIds :
            d # caller /\ putPrescriptionRoute(caller, id, [doctorId |-> d], FALSE).status = 200

\* a handler's leaving that changed neither the collection nor its counter
NoChange(leaving, map, counter) == leaving.map = map /\ leaving.counter = counter
\* a creation that stored the payload's allow-listed fields under the next id
Created(leaving, map, counter, schema, body) ==
  /\ leaving.status = 201
  /\ leaving.counter = counter + 1
  /\ Len(leaving.map) = Len(map) + 1
  /\ \A i \in 1..Len(map) : leaving.map[i] = map[i]
  /\ leaving.map[Len(map) + 1][1] = counter
  /\ leaving.map[Len(map) + 1][2].id = counter
  /\ LET stored == leaving.map[Len(map) + 1][2]
         kept == DOMAIN body \cap (schema.required \cup schema.optional)
     IN /\ DOMAIN stored = kept \cup {"id"}
        /\ \A f \in kept :
             stored[f] = IF f \in {"appointmentDate", "prescriptionDate"}
                         THEN <<"Date", body[f][2]>>
                         ELSE body[f]

\* the schedule write rules; `foreign` says when a doctor's creation payload
\* counts as naming another doctor: whenever its doctorId differs from the
\* caller ("any payload"), or only when it is valid as well ("valid payload")
ScheduleWritesFollow(foreign) ==
  \A caller \in Authenticated :
    LET role == RoleOf(caller)
    IN /\ \A body \in PostScheduleBodies :
            LET post == postScheduleRoute(caller, body, FALSE)
                valid == SchemaAccepts(insertDoctorScheduleSchema, body)
                other == "doctorId" \in DOMAIN body /\ body.doctorId # caller
            IN /\ post.status = 201 =>
                    /\ role \in {"doctor", "nurse"}
                    /\ role = "doctor" => body.doctorId = caller
               /\ role = "patient" =>
                    post.status = 403 /\ NoChange(post, doctorSchedules, scheduleIdCounter)
               /\ (role = "doctor" /\ other /\ (foreign = "valid payload" => valid)) =>
                    post.status = 403 /\ NoChange(post, doctorSchedules, scheduleIdCounter)
               /\ (role \in {"doctor", "nurse"} /\ ~valid /\ foreign = "valid payload") =>
                    post.status = 400 /\ NoChange(post, doctorSchedules, scheduleIdCounter)
               /\ (valid /\ (role = "nurse" \/ (role = "doctor" /\ ~other))) =>
                    Created(post, doctorSchedules, scheduleIdCounter,
                            insertDoctorScheduleSchema, body)
       /\ \A id \in MapKeys(doctorSchedules) :
            LET own == MapGet(doctorSchedules, id).doctorId = caller
                allowed == role = "nurse" \/ (role = "doctor" /\ own)
                deleted == deleteScheduleRoute(caller, id, FALSE)
            IN /\ \A body \in PutScheduleBodies :
                    LET put == putScheduleRoute(caller, id, body, FALSE)
                    IN IF allowed
                       THEN put.status = 200 /\ Applied(put.map, id, body)
                       ELSE put.status = 403 /\ put.map = doctorSchedules
               /\ IF allowed
                  THEN deleted.status = 204 /\ ~MapHas(deleted.map, id)
                  ELSE deleted.status = 403 /\ deleted.map = doctorSchedules
       /\ role = "patient" =>
            \A id \in ScheduleIdParams, fails \in BOOLEAN :
              /\ \A body \in PutScheduleBodies :
                   LET put == putScheduleRoute(caller, id, body, fails)
                   IN put.status = 403 /\ put.map = doctorSchedules
              /\ LET deleted == deleteScheduleRoute(caller, id, fails)
                 IN deleted.status = 403 /\ deleted.map = doctorSchedules

\* C11 (as stated): schedule create, update and delete succeed only for a
\* doctor or nurse; a doctor's request takes effect only when the doctorId
\* (of the payload for create, of the stored record for update and delete) is
\* the doctor's own id and is otherwise answered 403 with no change; a
\* nurse's request takes effect for any doctorId; a patient's request is
\* always answered 403 with no change.
C11_ScheduleWritesForeignIs403 == ScheduleWritesFollow("any payload")

\* C11 (amended): as stated, except that on create the payload is validated
\* before the doctorId comparison: a doctor's or nurse's create with an
\* invalid payload is answered 400 with no change, whatever its doctorId, and
\* a doctor's create is answered 403 for a foreign doctorId only when the
\* payload is valid.
C11_ScheduleWritesValidatedFirst == ScheduleWritesFollow("valid payload")

C11_Witness ==
  /\ \E caller \in CallersOfRole("doctor"), id \in MapKeys(doctorSchedules) :
       /\ MapGet(doctorSchedules, id).doctorId # caller
       /\ deleteScheduleRoute(caller, id, FALSE).status = 403
       /\ postScheduleRoute(caller, [doctorId |-> MapGet(doctorSchedules, id).doctorId],
                            FALSE).status = 400
  /\ \E caller \in CallersOfRole("doctor"), id \in MapKeys(doctorSchedules) :
       /\ MapGet(doctorSchedules, id).doctorId = caller
       /\ MapGet(doctorSchedules, id).day = "tuesday"
  /\ \E caller \in CallersOfRole("nurse") : TRUE

\* R lists exactly the schedule entries stored under keys, each once
ListsSchedules(R, keys) ==
  /\ Len(R) = Cardinality(keys)
  /\ \A k \in keys : \E i \in 1..Len(R) : R[i] = MapGet(doctorSchedules, k)
\* R follows the iteration order of the schedules collection
InScheduleOrder(R) ==
  \A i, j \in 1..Len(R) :
    i < j => PositionIn(doctorSchedules, R[i].id) < PositionIn(doctorSchedules, R[j].id)
SchedulesOf(doctorId) ==
  {k \in MapKeys(doctorSchedules) : MapGet(doctorSchedules, k).doctorId = doctorId}

\* C12 (as stated): on GET /api/schedules and GET /api/schedules/doctor/:id
\* a doctor receives only schedule entries whose doctorId is the doctor's own
\* id, and a caller of any other role receives the entries of all doctors.
C12_BothReadsScopedByRole ==
  \A caller \in Authenticated, d \in PayloadIds :
    LET all == getSchedulesRoute(caller, FALSE).result
        one == getSchedulesByDoctorRoute(caller, d, FALSE).result
    IN IF RoleOf(caller) = "doctor"
       THEN \A r \in Elems(all) \cup Elems(one) : r.doctorId = caller
       ELSE ListsSchedules(all, SchedulesOfDoctorUsers)
              /\ ListsSchedules(one, SchedulesOfDoctorUsers)

\* C12 (amended): on GET /api/schedules a doctor receives exactly the
\* schedule entries whose doctorId is the doctor's own id and a caller of any
\* other role the entries of all doctor users; GET /api/schedules/doctor/:id
\* returns to every authenticated caller, whatever the role, exactly the
\* entries whose doctorId is the id of the path.
C12_ListScopedByRoleByDoctorOpen ==
  \A caller \in Authenticated :
    LET all == getSchedulesRoute(caller, FALSE)
    IN /\ all.status = 200
       /\ IF RoleOf(caller) = "doctor"
          THEN ListsSchedules(all.result, SchedulesOf(caller)) /\ InScheduleOrder(all.result)
          ELSE ListsSchedules(all.result, SchedulesOfDoctorUsers)
       /\ \A d \in PayloadIds :
            LET one == getSchedulesByDoctorRoute(caller, d, FALSE)
            IN /\ one.status = 200
               /\ ListsSchedules(one.result, SchedulesOf(d))
               /\ InScheduleOrder(one.result)

C12_Witness ==
  /\ \E caller \in CallersOfRole("doctor"), d \in PayloadIds :
       /\ d # caller
       /\ getSchedulesByDoctorRoute(caller, d, FALSE).result # <<>>
       /\ getSchedulesRoute(caller, FALSE).result # <<>>
       /\ Len(getSchedulesRoute(caller, FALSE).result) < Len(doctorSchedules)
  /\ \E caller \in CallersOfRole("patient"), d \in PayloadIds :
       Len(getSchedulesByDoctorRoute(caller, d, FALSE).result)
         < Len(getSchedulesRoute(caller, FALSE).result)

\* the prescription creation rules; `foreign` as for the schedule writes
PrescriptionCreateFollows(foreign) ==
  \A caller \in Authenticated, body \in PostPrescriptionBodies :
    LET role == RoleOf(caller)
        post == postPrescriptionRoute(caller, body, FALSE)
        valid == SchemaAccepts(insertPrescriptionSchema, body)
        other == "doctorId" \in DOMAIN body /\ body.doctorId # caller
    IN /\ post.status = 201 => role = "doctor" /\ body.doctorId = caller
       /\ post.status # 201 => NoChange(post, prescriptions, prescriptionIdCounter)
       /\ role # "doctor" =>
            \A fails \in BOOLEAN :
              LET refused == postPrescriptionRoute(caller, body, fails)
              IN refused.status = 403
                   /\ NoChange(refused, prescriptions, prescriptionIdCounter)
       /\ (role = "doctor" /\ other /\ (foreign = "valid payload" => valid)) =>
            post.status = 403
       /\ (role = "doctor" /\ ~valid /\ foreign = "valid payload") => post.status = 400
       /\ (role = "doctor" /\ valid /\ ~other) =>
            Created(post, prescriptions, prescriptionIdCounter,
                    insertPrescriptionSchema, body)

\* C13 (as stated): POST /api/prescriptions creates a prescription (201)
\* only when the caller is a doctor and the payload's doctorId is the
\* caller's id; a patient or nurse, or a doctor submitting another doctor's
\* id, is answered 403, and the collection and its id counter are unchanged.
C13_ForeignPrescriptionIs403 == PrescriptionCreateFollows("any payload")

\* C13 (amended): as stated, except that a doctor submitting another
\* doctor's id is answered 403 only when the payload is valid; a doctor's
\* invalid payload is answered 400, whatever its doctorId, with the
\* collection and its id counter unchanged.
C13_PrescriptionCreateValidatedFirst == PrescriptionCreateFollows("valid payload")

C13_Witness ==
  /\ \E caller \in CallersOfRole("doctor"), body \in ValidPrescriptionBodies :
       /\ body.doctorId # caller
       /\ postPrescriptionRoute(caller, body, FALSE).status = 403
       /\ postPrescriptionRoute(caller, [doctorId |-> body.doctorId], FALSE).status = 400
  /\ \E caller \in CallersOfRole("nurse"), body \in ValidPrescriptionBodies :
       postPrescriptionRoute(caller, body, FALSE).status = 403
  /\ \E caller \in CallersOfRole("doctor"), id \in MapKeys(prescriptions) :
       MapGet(prescriptions, id).doctorId = caller

\* C14: a patient's POST /api/appointments with a valid payload is answered
\* 403 and stores nothing (collection and id counter unchanged) when the
\* payload's patientId differs from the caller's id, and is answered 201 with
\* the new appointment stored when it equals the caller's id.
C14_PatientCreatesOnlyOwnAppointment ==
  \A caller \in CallersOfRole("patient"), body \in PostAppointmentBodies :
    SchemaAccepts(insertAppointmentSchema, body) =>
      LET post == postAppointmentRoute(caller, body, FALSE)
      IN IF body.patientId # caller
         THEN /\ post.status = 403
              /\ NoChange(post, appointments, appointmentIdCounter)
              /\ NoChange(postAppointmentRoute(caller, body, TRUE),
                          appointments, appointmentIdCounter)
         ELSE Created(post, appointments, appointmentIdCounter,
                      insertAppointmentSchema, body)

C14_Witness ==
  /\ \E caller \in CallersOfRole("patient"), body \in ValidAppointmentBodies :
       /\ body.patientId # caller
       /\ postAppointmentRoute(caller, body, FALSE).status = 403
  /\ \E caller \in CallersOfRole("patient"), id \in MapKeys(appointments) :
       /\ MapGet(appointments, id).patientId = caller
       /\ \E body \in ValidAppointmentBodies :
            body.patientId = caller /\ postAppointmentRoute(caller, body, FALSE).status = 201

\* the answers of the read routes to one caller, for every parameter
ReadAnswers(caller, fails) ==
  {getDoctorsRoute(caller, fails), getPatientsRoute(caller, fails),
   getAppointmentsRoute(caller, fails), getBedsRoute(caller, fails),
   getPrescriptionsRoute(caller, fails), getSchedulesRoute(caller, fails)}
    \cup {getAppointmentsByDateRoute(caller, day, fails) : day \in QueryDays \cup {BadDate}}
    \cup {getBedsByWardRoute(caller, ward, fails) : ward \in Elems(wards)}
    \cup {getBedsByStatusRoute(caller, status, fails) : status \in {"available", "occupied"}}
    \cup {getPrescriptionRoute(caller, id, fails) : id \in PrescriptionIdParams}
    \cup {getSchedulesByDoctorRoute(caller, d, fails) : d \in PayloadIds}

\* a write route's answer carries the given status and no record and the
\* route left its collection and id counter alone
Refused(leaving, status, map, counter) ==
  leaving.status = status /\ leaving.result = <<>> /\ NoChange(leaving, map, counter)

\* C15: on every route and method an unauthenticated request is answered
\* 401, the response carries no stored record and the store is unchanged.
C15_UnauthenticatedIs401 ==
  \A fails \in BOOLEAN :
    /\ \A answer \in ReadAnswers(Anonymous, fails) :
         answer.status = 401 /\ answer.result = <<>>
    /\ \A body \in PostAppointmentBodies :
         Refused(postAppointmentRoute(Anonymous, body, fails), 401,
                 appointments, appointmentIdCounter)
    /\ \A id \in AppointmentIdParams :
         /\ \A body \in PutAppointmentBodies :
              Refused(putAppointmentRoute(Anonymous, id, body, fails), 401,
                      appointments, appointmentIdCounter)
         /\ Refused(deleteAppointmentRoute(Anonymous, id, fails), 401,
                    appointments, appointmentIdCounter)
    /\ \A body \in PostBedBodies :
         Refused(postBedRoute(Anonymous, body, fails), 401, beds, bedIdCounter)
    /\ \A id \in BedIdParams, body \in PutBedBodies :
         Refused(putBedRoute(Anonymous, id, body, fails), 401, beds, bedIdCounter)
    /\ \A body \in PostPrescriptionBodies :
         Refused(postPrescriptionRoute(Anonymous, body, fails), 401,
                 prescriptions, prescriptionIdCounter)
    /\ \A id \in PrescriptionIdParams, body \in PutPrescriptionBodies :
         Refused(putPrescriptionRoute(Anonymous, id, body, fails), 401,
                 prescriptions, prescriptionIdCounter)
    /\ \A body \in PostScheduleBodies :
         Refused(postScheduleRoute(Anonymous, body, fails), 401,
                 doctorSchedules, scheduleIdCounter)
    /\ \A id \in ScheduleIdParams :
         /\ \A body \in PutScheduleBodies :
              Refused(putScheduleRoute(Anonymous, id, body, fails), 401,
                      doctorSchedules, scheduleIdCounter)
         /\ Refused(deleteScheduleRoute(Anonymous, id, fails), 401,
                    doctorSchedules, scheduleIdCounter)

C15_Witness ==
  /\ CallersOfRole("doctor") # {}
  /\ appointments # <<>> /\ prescriptions # <<>>
  /\ getDoctorsRoute(Anonymous, FALSE).status = 401
  /\ getAppointmentsByDateRoute(Anonymous, BadDate, FALSE).status = 401
  /\ \E id \in MapKeys(appointments) :
       deleteAppointmentRoute(Anonymous, id, FALSE).status = 401
  /\ getBedsRoute(Anonymous, FALSE).result = <<>>

\* C16: an authenticated caller whose role is not in a route's allowed list
\* (patient on GET /api/users/patients, POST and PUT /api/beds, POST, PUT and
\* DELETE /api/schedules; patient or nurse on POST and PUT
\* /api/prescriptions) is answered 403 even for a non-existent id or an
\* invalid payload, and the store is unchanged.
C16_RoleOutsideListIs403 ==
  \A caller \in Authenticated, fails \in BOOLEAN :
    /\ RoleOf(caller) = "patient" =>
         /\ getPatientsRoute(caller, fails).status = 403
         /\ getPatientsRoute(caller, fails).result = <<>>
         /\ \A body \in PostBedBodies :
              Refused(postBedRoute(caller, body, fails), 403, beds, bedIdCounter)
         /\ \A id \in BedIdParams, body \in PutBedBodies :
              Refused(putBedRoute(caller, id, body, fails), 403, beds, bedIdCounter)
         /\ \A body \in PostScheduleBodies :
              Refused(postScheduleRoute(caller, body, fails), 403,
                      doctorSchedules, scheduleIdCounter)
         /\ \A id \in ScheduleIdParams :
              /\ \A body \in PutScheduleBodies :
                   Refused(putScheduleRoute(caller, id, body, fails), 403,
                           doctorSchedules, scheduleIdCounter)
              /\ Refused(deleteScheduleRoute(caller, id, fails), 403,
                         doctorSchedules, scheduleIdCounter)
    /\ RoleOf(caller) \in {"patient", "nurse"} =>
         /\ \A body \in PostPrescriptionBodies :
              Refused(postPrescriptionRoute(caller, body, fails), 403,
                      prescriptions, prescriptionIdCounter)
         /\ \A id \in PrescriptionIdParams, body \in PutPrescriptionBodies :
              Refused(putPrescriptionRoute(caller, id, body, fails), 403,
                      prescriptions, prescriptionIdCounter)

C16_Witness ==
  /\ \E caller \in CallersOfRole("patient"), id \in BedIdParams, body \in PostBedBodies :
       /\ getBed(id) = <<>>
       /\ putBedRoute(caller, id, <<>>, FALSE).status = 403
       /\ ~SchemaAccepts(insertBedSchema, body)
       /\ postBedRoute(caller, body, FALSE).status = 403
  /\ \E caller \in CallersOfRole("nurse"), id \in PrescriptionIdParams :
       /\ getPrescription(id) = <<>>
       /\ putPrescriptionRoute(caller, id, <<>>, FALSE).status = 403
       /\ postPrescriptionRoute(caller, [status |-> "active"], FALSE).status = 403
  /\ doctorSchedules # <<>>

\* the keys of a collection ascend in insertion order and lie below its counter
KeysAscendBelow(map, counter) ==
  /\ \A i, j \in 1..Len(map) : i < j => map[i][1] < map[j][1]
  /\ \A i \in 1..Len(map) : map[i][1] < counter
\* a step gives every key it adds an id the counter had not passed before
\* and has passed after
AddsFreshIds(mapBefore, counterBefore, mapAfter, counterAfter) ==
  /\ counterAfter >= counterBefore
  /\ \A k \in MapKeys(mapAfter) \ MapKeys(mapBefore) :
       counterBefore <= k /\ k < counterAfter

\* C17: for each entity kind the ids assigned by create are strictly
\* increasing in creation order and pairwise distinct over the whole run,
\* under any interleaving of create, update and delete: an id is never
\* assigned twice, not even after the record holding it was deleted.
C17_IdsNeverReused ==
  /\ [](/\ KeysAscendBelow(users, userIdCounter)
        /\ KeysAscendBelow(appointments, appointmentIdCounter)
        /\ KeysAscendBelow(beds, bedIdCounter)
        /\ KeysAscendBelow(prescriptions, prescriptionIdCounter)
        /\ KeysAscendBelow(doctorSchedules, scheduleIdCounter))
  /\ [][/\ AddsFreshIds(users, userIdCounter, users', userIdCounter')
        /\ AddsFreshIds(appointments, appointmentIdCounter,
                        appointments', appointmentIdCounter')
        /\ AddsFreshIds(beds, bedIdCounter, beds', bedIdCounter')
        /\ AddsFreshIds(prescriptions, prescriptionIdCounter,
                        prescriptions', prescriptionIdCounter')
        /\ AddsFreshIds(doctorSchedules, scheduleIdCounter,
                        doctorSchedules', scheduleIdCounter')]_vars

C17_Witness ==
  /\ MapKeys(appointments) = {2}
  /\ appointmentIdCounter = 3
  /\ MapGet(appointments, 2).status = "cancelled"

\* inputs of the create methods: the insert types of shared/schema.ts, the
\* date of an appointment or prescription as an ISO string or as a Date
DateFields == {"appointmentDate", "prescriptionDate"}
AsDate(input) ==
  [f \in DOMAIN input |-> IF f \in DateFields THEN <<"Date", input[f][2]>> ELSE input[f]]
InsertUsers == {[role |-> role, password |-> "secret"] : role \in Roles}
InsertAppointments == ValidAppointmentBodies \cup {AsDate(b) : b \in ValidAppointmentBodies}
InsertPrescriptions == ValidPrescriptionBodies \cup {AsDate(b) : b \in ValidPrescriptionBodies}

\* record is input merged with id; with dates "as given" every field of the
\* input is kept, with dates "as Date" a date field holds the Date of the
\* input's instant
IsInputWithId(record, input, id, dates) ==
  /\ DOMAIN record = DOMAIN input \cup {"id"}
  /\ record.id = id
  /\ \A f \in DOMAIN input \ {"id"} :
       record[f] = IF dates = "as Date" /\ f \in DateFields
                   THEN <<"Date", input[f][2]>>
                   ELSE input[f]
\* create(input) returned and stored, under the next id and after the
\* records already there, the input merged with the id
CreatesInputWithId(created, map, counter, input, dates) ==
  /\ IsInputWithId(created.ret, input, counter, dates)
  /\ created.counter = counter + 1
  /\ created.map = Append(map, <<counter, created.ret>>)
EveryCreateGivesInputWithId(dates) ==
  /\ \A input \in InsertUsers :
       CreatesInputWithId(createUser(input), users, userIdCounter, input, dates)
  /\ \A input \in InsertAppointments :
       CreatesInputWithId(createAppointment(input), appointments,
                          appointmentIdCounter, input, dates)
  /\ \A input \in ValidBedBodies :
       CreatesInputWithId(createBed(input), beds, bedIdCounter, input, dates)
  /\ \A input \in InsertPrescriptions :
       CreatesInputWithId(createPrescription(input), prescriptions,
                          prescriptionIdCounter, input, dates)
  /\ \A input \in ValidScheduleBodies :
       CreatesInputWithId(createDoctorSchedule(input), doctorSchedules,
                          scheduleIdCounter, input, dates)

\* C18 (as stated): for every entity kind and every input, create(fields)
\* followed by get(returned id) yields a record equal to the input fields
\* merged with the assigned id, and create changes no other record.
C18_CreateThenGetIsInputWithId == EveryCreateGivesInputWithId("as given")

\* C18 (amended): as stated, except that an appointment's appointmentDate
\* and a prescription's prescriptionDate are stored as the Date of the
\* input's instant (new Date(input)), which differs from the input when that
\* is an ISO string; in the step after a create, get(returned id) yields
\* that record and the records stored before are unchanged.
C18_CreateThenGetIsInputWithIdDatesAsDate ==
  /\ []EveryCreateGivesInputWithId("as Date")
  /\ [][/\ userIdCounter' # userIdCounter =>
             \A id \in {userIdCounter} :
               /\ \E input \in InsertUsers :
                    /\ Len(getUser(id)') = 1
                    /\ IsInputWithId(getUser(id)'[1], input, id, "as Date")
               /\ \A i \in 1..Len(users) : users'[i] = users[i]
        /\ appointmentIdCounter' # appointmentIdCounter =>
             \A id \in {appointmentIdCounter} :
               /\ \E input \in InsertAppointments :
                    /\ Len(getAppointment(id)') = 1
                    /\ IsInputWithId(getAppointment(id)'[1], input, id, "as Date")
               /\ \A i \in 1..Len(appointments) : appointments'[i] = appointments[i]
        /\ prescriptionIdCounter' # prescriptionIdCounter =>
             \A id \in {prescriptionIdCounter} :
               /\ \E input \in InsertPrescriptions :
                    /\ Len(getPrescription(id)') = 1
                    /\ IsInputWithId(getPrescription(id)'[1], input, id, "as Date")
               /\ \A i \in 1..Len(prescriptions) : prescriptions'[i] = prescriptions[i]
        /\ scheduleIdCounter' # scheduleIdCounter =>
             \A id \in {scheduleIdCounter} :
               /\ \E input \in ValidScheduleBodies :
                    /\ Len(getDoctorSchedule(id)') = 1
                    /\ IsInputWithId(getDoctorSchedule(id)'[1], input, id, "as Date")
               /\ \A i \in 1..Len(doctorSchedules) : doctorSchedules'[i] = doctorSchedules[i]]_vars

C18_Witness ==
  /\ Len(users) = 2
  /\ \E id \in MapKeys(appointments) :
       /\ getAppointment(id)[1].appointmentDate = <<"Date", 36>>
       /\ getAppointment(id)[1].id = id
  /\ \E id \in MapKeys(doctorSchedules) :
       IsInputWithId(getDoctorSchedule(id)[1],
                     [doctorId |-> getDoctorSchedule(id)[1].doctorId, day |-> "monday",
                      startTime |-> "09:00", endTime |-> "17:00",
                      activityType |-> "clinic"], id, "as given")

\* delete(id) on a collection gave (ret, map): an existing record is removed,
\* the others stay as they were and in their order; a missing id gives false
\* and the collection as it was
RemovedOrAbsent(map, id, deleted) ==
  IF id \in MapKeys(map)
  THEN /\ deleted.ret = TRUE
       /\ id \notin MapKeys(deleted.map)
       /\ Len(deleted.map) = Len(map) - 1
       /\ \A i \in 1..Len(map) :
            map[i][1] # id =>
              deleted.map[IF i < PositionIn(map, id) THEN i ELSE i - 1] = map[i]
  ELSE deleted.ret = FALSE /\ deleted.map = map

\* C19: for appointments and schedules, delete(id) of an existing record
\* returns true and removes exactly that record, so that a subsequent get(id)
\* returns not-found, leaving all other records unchanged; delete of a
\* non-existent id returns false and changes nothing; deleting the same id
\* twice returns true, then false.
C19_DeleteRemovesOnce ==
  /\ [](/\ \A id \in AppointmentIdParams :
             RemovedOrAbsent(appointments, id, deleteAppointment(id))
        /\ \A id \in ScheduleIdParams :
             RemovedOrAbsent(doctorSchedules, id, deleteDoctorSchedule(id)))
  /\ [][/\ \A id \in MapKeys(appointments) \ MapKeys(appointments') :
             /\ deleteAppointment(id).ret = TRUE
             /\ getAppointment(id)' = <<>>
             /\ deleteAppointment(id)'.ret = FALSE
             /\ deleteAppointment(id)'.map = appointments'
        /\ \A id \in MapKeys(doctorSchedules) \ MapKeys(doctorSchedules') :
             /\ deleteDoctorSchedule(id).ret = TRUE
             /\ getDoctorSchedule(id)' = <<>>
             /\ deleteDoctorSchedule(id)'.ret = FALSE
             /\ deleteDoctorSchedule(id)'.map = doctorSchedules']_vars

C19_Witness ==
  /\ appointments = <<>> /\ appointmentIdCounter = 2
  /\ getAppointment(1) = <<>>
  /\ deleteAppointment(1).ret = FALSE
  /\ MapKeys(doctorSchedules) = {1}
  /\ deleteDoctorSchedule(1).ret = TRUE
  /\ deleteDoctorSchedule(1).map = <<>>

\* C20: beds and prescriptions are never removed: their id sets only grow,
\* every id create has returned stays retrievable by get in every later
\* state, and there are always at least 20 beds.
C20_BedsAndPrescriptionsStay ==
  /\ [](/\ Len(beds) >= 20
        /\ \A id \in 1..(bedIdCounter - 1) : getBed(id) # <<>>
        /\ \A id \in 1..(prescriptionIdCounter - 1) : getPrescription(id) # <<>>)
  /\ [][/\ MapKeys(beds) \subseteq MapKeys(beds')
        /\ MapKeys(prescriptions) \subseteq MapKeys(prescriptions')
        /\ \A id \in MapKeys(beds) : getBed(id)' # <<>>
        /\ \A id \in MapKeys(prescriptions) : getPrescription(id)' # <<>>]_vars

C20_Witness ==
  /\ Len(beds) = 21
  /\ getBed(21) # <<>>
  /\ getBed(1)[1].status = "occupied"
  /\ \E id \in MapKeys(prescriptions) : getPrescription(id)[1].status = "completed"

(***************************************************************************)
(* Requests in flight.  A handler runs without interruption up to the      *)
(* store call it awaits (a MemStorage method runs to its return when it is *)
(* called) and resumes in a later turn of the event loop, so the handlers  *)
(* of other requests run between two store calls of one handler.  A        *)
(* request record holds the handler's locals; `applied`, `over`, `turn`    *)
(* and `throughout` record what the store held when the handler wrote or   *)
(* while it read.                                                          *)
(***************************************************************************)
\* the order in which the users of a deployment register
RegistrationOrders ==
  {<<"patient", "doctor", "nurse">>, <<"doctor", "doctor", "nurse">>}
InFlightIdParams == 1..MaxInFlightRecords
InFlightPostBodies == ValidAppointmentBodies \cup {[status |-> "scheduled"]}
InFlightPutBodies ==
  {[patientId |-> p] : p \in PayloadIds} \cup {[doctorId |-> d] : d \in PayloadIds}

NoAnswer == [status |-> 0, result |-> <<>>, failed |-> FALSE]
IsDone(request) == request.at = "done"
WritesApplied == Cardinality({i \in 1..Len(requests) : requests[i].applied})
\* the appointments whose doctorId names a user with role doctor
BelongingToDoctors(map) ==
  {map[i][1] : i \in {j \in 1..Len(map) :
     \E d \in 1..Len(users) :
       users[d][2].role = "doctor" /\ users[d][1] = map[j][2].doctorId}}
\* a write seen from the list requests that are still reading
Noticed(request, map) ==
  IF request.route = "GET" /\ ~IsDone(request)
  THEN [request EXCEPT !.throughout = @ \cap BelongingToDoctors(map)]
  ELSE request
Resumed(i, request, map) ==
  [j \in 1..Len(requests) |-> IF j = i THEN request ELSE Noticed(requests[j], map)]

Registers ==
  /\ \E roles \in RegistrationOrders :
       /\ Len(users) < Len(roles)
       /\ Len(users) < MaxUsers
       /\ \A i \in 1..Len(users) : users[i][2].role = roles[i]
       /\ LET created == createUser([role |-> roles[Len(users) + 1],
                                     password |-> "secret"])
          IN /\ users' = created.map
             /\ userIdCounter' = created.counter
  /\ UNCHANGED <<requests, tz, appointments, beds, prescriptions, doctorSchedules,
                 appointmentIdCounter, bedIdCounter, prescriptionIdCounter,
                 scheduleIdCounter>>

\* POST /api/appointments: the handler awaits one store call, which has run
\* when the handler is suspended
PostAppointmentInFlight ==
  /\ appointmentIdCounter - 1 < MaxInFlightRecords
  /\ \E caller \in Callers, body \in InFlightPostBodies, fails \in BOOLEAN :
       LET done == postAppointmentRoute(caller, body, fails)
       IN /\ appointments' = done.map
          /\ appointmentIdCounter' = done.counter
          /\ requests' = [j \in 1..Len(requests) |-> Noticed(requests[j], done.map)]
  /\ UNCHANGED <<tz, users, beds, prescriptions, doctorSchedules, userIdCounter,
                 bedIdCounter, prescriptionIdCounter, scheduleIdCounter>>

\* a write request as its handler starts
WriteRequest(route, caller, id, body) ==
  [route |-> route, caller |-> caller, id |-> id, body |-> body,
   at |-> "done", appointment |-> <<>>, answer |-> NoAnswer,
   applied |-> FALSE, over |-> <<>>, turn |-> 0]

\* PUT and DELETE /api/appointments/:id up to await storage.getAppointment(id)
appointmentWriteArrived(route, caller, id, body, fails) ==
  LET request == WriteRequest(route, caller, id, body)
  IN IF ~ensureAuthenticated(caller)
     THEN [request EXCEPT !.answer = Answer(401, <<>>)]
     ELSE IF fails THEN [request EXCEPT !.answer = Caught]
     ELSE [request EXCEPT !.at = "write", !.appointment = getAppointment(id)]

\* PUT /api/appointments/:id from the lookup's return, writing the record
\* looked up merged with the payload
putAppointmentResumedFromLookup(request, fails) ==
  LET keep(answer) ==
        [request |-> [request EXCEPT !.at = "done", !.answer = answer],
         map |-> appointments]
  IN IF request.appointment = <<>> THEN keep(Answer(404, <<>>))
     ELSE IF /\ RoleOf(request.caller) = "patient"
             /\ request.appointment[1].patientId # request.caller
            THEN keep(Answer(403, <<>>))
     ELSE IF fails THEN keep(Caught)
     ELSE LET updatedAppointment == Spread(request.appointment[1], request.body)
          IN [request |-> [request EXCEPT !.at = "done",
                                          !.answer = Answer(200, <<updatedAppointment>>),
                                          !.applied = TRUE,
                                          !.over = getAppointment(request.id),
                                          !.turn = WritesApplied + 1],
              map |-> MapSet(appointments, request.id, updatedAppointment)]

\* PUT /api/appointments/:id from the lookup's return to the response
putAppointmentResumed(request, fails) ==
  LET keep(answer) ==
        [request |-> [request EXCEPT !.at = "done", !.answer = answer],
         map |-> appointments]
  IN IF request.appointment = <<>> THEN keep(Answer(404, <<>>))
     ELSE IF /\ RoleOf(request.caller) = "patient"
             /\ request.appointment[1].patientId # request.caller
            THEN keep(Answer(403, <<>>))
     ELSE IF fails THEN keep(Caught)
     ELSE LET updated == updateAppointment(request.id, request.body)
          IN [request |-> [request EXCEPT !.at = "done",
                                          !.answer = Answer(200, updated.ret),
                                          !.applied = TRUE,
                                          !.over = getAppointment(request.id),
                                          !.turn = WritesApplied + 1],
              map |-> updated.map]

\* DELETE /api/appointments/:id from the lookup's return to the response
deleteAppointmentResumed(request, fails) ==
  LET keep(answer) ==
        [request |-> [request EXCEPT !.at = "done", !.answer = answer],
         map |-> appointments]
  IN IF request.appointment = <<>> THEN keep(Answer(404, <<>>))
     ELSE IF /\ RoleOf(request.caller) = "patient"
             /\ request.appointment[1].patientId # request.caller
            THEN keep(Answer(403, <<>>))
     ELSE IF fails THEN keep(Caught)
     ELSE LET deleted == deleteAppointment(request.id)
          IN [request |-> [request EXCEPT !.at = "done",
                                          !.answer = IF deleted.ret
                                                     THEN Answer(204, <<>>)
                                                     ELSE Answer(404, <<>>),
                                          !.applied = TRUE,
                                          !.over = getAppointment(request.id),
                                          !.turn = WritesApplied + 1],
              map |-> deleted.map]

PutAppointmentArrives ==
  /\ Len(requests) < MaxRequests
  /\ \E caller \in Callers, id \in InFlightIdParams,
        body \in InFlightPutBodies, fails \in BOOLEAN :
       requests' = Append(requests,
                          appointmentWriteArrived("PUT", caller, id, body, fails))
  /\ UNCHANGED <<tz, store>>

DeleteAppointmentArrives ==
  /\ Len(requests) < MaxRequests
  /\ \E caller \in Callers, id \in InFlightIdParams, fails \in BOOLEAN :
       requests' = Append(requests,
                          appointmentWriteArrived("DELETE", caller, id, <<>>, fails))
  /\ UNCHANGED <<tz, store>>

PutAppointmentResumes ==
  /\ \E i \in 1..Len(requests), fails \in BOOLEAN :
       /\ requests[i].route = "PUT" /\ ~IsDone(requests[i])
       /\ LET resumed == putAppointmentResumed(requests[i], fails)
          IN /\ appointments' = resumed.map
             /\ requests' = Resumed(i, resumed.request, resumed.map)
  /\ UNCHANGED <<tz, users, beds, prescriptions, doctorSchedules, userIdCounter,
                 appointmentIdCounter, bedIdCounter, prescriptionIdCounter,
                 scheduleIdCounter>>

DeleteAppointmentResumes ==
  /\ \E i \in 1..Len(requests), fails \in BOOLEAN :
       /\ requests[i].route = "DELETE" /\ ~IsDone(requests[i])
       /\ LET resumed == deleteAppointmentResumed(requests[i], fails)
          IN /\ appointments' = resumed.map
             /\ requests' = Resumed(i, resumed.request, resumed.map)
  /\ UNCHANGED <<tz, users, beds, prescriptions, doctorSchedules, userIdCounter,
                 appointmentIdCounter, bedIdCounter, prescriptionIdCounter,
                 scheduleIdCounter>>

\* a list request as its handler starts
ListRequest(caller) ==
  [route |-> "GET", caller |-> caller, at |-> "done", doctorIds |-> <<>>,
   appointments |-> <<>>, answer |-> NoAnswer, applied |-> FALSE,
   throughout |-> BelongingToDoctors(appointments)]

\* GET /api/appointments up to the first store call it awaits
getAppointmentsArrived(caller, fails) ==
  LET request == ListRequest(caller)
  IN IF ~ensureAuthenticated(caller)
     THEN [request EXCEPT !.answer = Answer(401, <<>>)]
     ELSE IF fails THEN [request EXCEPT !.answer = Escaped]
     ELSE IF RoleOf(caller) = "patient"
            THEN [request EXCEPT !.answer = Answer(200, getAppointmentsByPatient(caller))]
     ELSE IF RoleOf(caller) = "doctor"
            THEN [request EXCEPT !.answer = Answer(200, getAppointmentsByDoctor(caller))]
     ELSE LET doctorIds == IdsOf(getUsersByRole("doctor"))
          IN IF doctorIds = <<>>
             THEN [request EXCEPT !.answer = Answer(200, <<>>)]
             ELSE [request EXCEPT !.at = "fanout", !.doctorIds = doctorIds]

\* the nurse branch, one turn of its loop: the next doctor's appointments
\* are read and pushed; after the last doctor's the response is written
getAppointmentsResumed(request, fails) ==
  IF fails THEN [request EXCEPT !.at = "done", !.answer = Escaped]
  ELSE LET doctorAppointments == getAppointmentsByDoctor(Head(request.doctorIds))
           pushed == request.appointments \o doctorAppointments
       IN IF Tail(request.doctorIds) = <<>>
          THEN [request EXCEPT !.at = "done", !.doctorIds = <<>>,
                               !.appointments = pushed,
                               !.answer = Answer(200, pushed)]
          ELSE [request EXCEPT !.doctorIds = Tail(@), !.appointments = pushed]

GetAppointmentsArrives ==
  /\ Len(requests) < MaxRequests
  /\ \E caller \in Callers, fails \in BOOLEAN :
       requests' = Append(requests, getAppointmentsArrived(caller, fails))
  /\ UNCHANGED <<tz, store>>

GetAppointmentsResumes ==
  /\ \E i \in 1..Len(requests), fails \in BOOLEAN :
       /\ requests[i].route = "GET" /\ ~IsDone(requests[i])
       /\ requests' = [requests EXCEPT ![i] = getAppointmentsResumed(@, fails)]
  /\ UNCHANGED <<tz, store>>

\* the appointment routes with their handlers interleaved at every await
NextInFlight ==
  \/ Registers
  \/ PostAppointmentInFlight
  \/ PutAppointmentArrives
  \/ PutAppointmentResumes
  \/ DeleteAppointmentArrives
  \/ DeleteAppointmentResumes
  \/ GetAppointmentsArrives
  \/ GetAppointmentsResumes

SpecInFlight == InitUTC /\ [][NextInFlight]_vars

\* C22: in every reachable state no two bed records have the same bedNumber,
\* also after POST /api/beds and PUT /api/beds/:id with valid payloads.
C22_BedNumbersUnique ==
  \A i, j \in 1..Len(beds) :
    beds[i][2].bedNumber = beds[j][2].bedNumber => i = j

\* C23: no element of the response of GET /api/users/doctors or GET
\* /api/users/patients has a password field, and every other field of each
\* returned user is passed through unchanged.
C23_UserListsWithoutPassword ==
  \A caller \in Authenticated :
    LET listed(role) == {i \in 1..Len(users) : users[i][2].role = role}
        shows(R, role) ==
          /\ Len(R) = Cardinality(listed(role))
          /\ \A n \in 1..Len(R) :
               /\ "password" \notin DOMAIN R[n]
               /\ \E i \in listed(role) :
                    /\ Cardinality({j \in listed(role) : j < i}) = n - 1
                    /\ DOMAIN R[n] = DOMAIN users[i][2] \ {"password"}
                    /\ \A f \in DOMAIN R[n] : R[n][f] = users[i][2][f]
        doctors == getDoctorsRoute(caller, FALSE)
        patients == getPatientsRoute(caller, FALSE)
    IN /\ doctors.status = 200 /\ shows(doctors.result, "doctor")
       /\ IF RoleOf(caller) = "patient"
          THEN patients.status = 403 /\ patients.result = <<>>
          ELSE patients.status = 200 /\ shows(patients.result, "patient")

C23_Witness ==
  \E caller \in CallersOfRole("nurse") :
    /\ Len(getDoctorsRoute(caller, FALSE).result) = 1
    /\ Len(getPatientsRoute(caller, FALSE).result) = 1
    /\ getPatientsRoute(caller, FALSE).result[1].role = "patient"
    /\ \A i \in 1..Len(users) : "password" \in DOMAIN users[i][2]

\* C25: a nurse's GET /api/appointments returns every appointment in the
\* store and a nurse's GET /api/prescriptions every prescription in the
\* store, including records whose doctorId names no user with role doctor.
C25_NurseSeesEveryRecord ==
  \A caller \in CallersOfRole("nurse") :
    /\ \A r \in Elems(MapValues(appointments)) :
         r \in Elems(getAppointmentsRoute(caller, FALSE).result)
    /\ \A r \in Elems(MapValues(prescriptions)) :
         r \in Elems(getPrescriptionsRoute(caller, FALSE).result)

\* C26: in every reachable state each record stored under key k in any of
\* the five maps has id = k, also after PUT requests whose payload has an id
\* field.
C26_StoredIdIsKey ==
  \A map \in {users, appointments, beds, prescriptions, doctorSchedules} :
    \A i \in 1..Len(map) : map[i][2].id = map[i][1]

\* C27: after every successful POST or PUT on appointments made by a patient
\* P, the appointment created or updated has patientId = P.
C27_PatientWritesStayOwn ==
  \A caller \in CallersOfRole("patient") :
    /\ \A body \in PostAppointmentBodies :
         LET post == postAppointmentRoute(caller, body, FALSE)
         IN post.status = 201 =>
              MapGet(post.map, appointmentIdCounter).patientId = caller
    /\ \A id \in AppointmentIdParams, body \in PutAppointmentBodies :
         LET put == putAppointmentRoute(caller, id, body, FALSE)
         IN put.status = 200 => MapGet(put.map, id).patientId = caller

\* C28: after every successful POST or PUT of a prescription or of a schedule
\* made by a doctor D, the record created or updated has doctorId = D, also
\* when the update payload has a doctorId field.
C28_DoctorWritesStayOwn ==
  \A caller \in CallersOfRole("doctor") :
    /\ \A body \in PostPrescriptionBodies :
         LET post == postPrescriptionRoute(caller, body, FALSE)
         IN post.status = 201 =>
              MapGet(post.map, prescriptionIdCounter).doctorId = caller
    /\ \A id \in PrescriptionIdParams, body \in PutPrescriptionBodies :
         LET put == putPrescriptionRoute(caller, id, body, FALSE)
         IN put.status = 200 => MapGet(put.map, id).doctorId = caller
    /\ \A body \in PostScheduleBodies :
         LET post == postScheduleRoute(caller, body, FALSE)
         IN post.status = 201 =>
              MapGet(post.map, scheduleIdCounter).doctorId = caller
    /\ \A id \in ScheduleIdParams, body \in PutScheduleBodies :
         LET put == putScheduleRoute(caller, id, body, FALSE)
         IN put.status = 200 => MapGet(put.map, id).doctorId = caller

\* C21: when two PUT requests on the same existing appointment are in flight
\* together and both store updates are applied, the stored record is the
\* original record merged with both payloads in the order the updates were
\* applied: a field of both payloads has the later update's value, a field
\* of one payload has that payload's value, every other field is the
\* original's.
C21_ConcurrentPutsMergeInOrder ==
  \A a, b \in 1..Len(requests) :
    LET first == requests[a]
        last == requests[b]
    IN (/\ first.route = "PUT" /\ last.route = "PUT"
        /\ first.applied /\ last.applied
        /\ first.id = last.id
        /\ first.over # <<>> /\ last.over # <<>>
        /\ last.turn = first.turn + 1 /\ last.turn = WritesApplied)
       => /\ getAppointment(last.id) # <<>>
          /\ LET original == first.over[1]
                 stored == getAppointment(last.id)[1]
             IN /\ DOMAIN stored =
                     DOMAIN original \cup DOMAIN first.body \cup DOMAIN last.body
                /\ \A f \in DOMAIN stored :
                     stored[f] = IF f \in DOMAIN last.body THEN last.body[f]
                                 ELSE IF f \in DOMAIN first.body THEN first.body[f]
                                 ELSE original[f]
          /\ first.answer = Answer(200, <<Spread(first.over[1], first.body)>>)
          /\ last.answer = Answer(200, getAppointment(last.id))

\* both handlers looked the record up before either wrote, and the request
\* that arrived second wrote first
C21_Witness ==
  /\ Len(requests) = 2
  /\ requests[1].route = "PUT" /\ requests[2].route = "PUT"
  /\ requests[1].id = 1 /\ requests[2].id = 1
  /\ requests[1].body = [patientId |-> 2] /\ requests[2].body = [patientId |-> 1]
  /\ requests[2].applied /\ requests[2].turn = 1 /\ requests[2].over # <<>>
  /\ requests[1].applied /\ requests[1].turn = 2
  /\ requests[1].appointment = requests[2].appointment
  /\ requests[1].appointment # <<>>
  /\ requests[1].over[1].patientId = 1
  /\ getAppointment(1)[1].patientId = 2

\* C24: a PUT /api/appointments/:id whose store update is applied when the
\* record is absent (a DELETE came between its lookup and its update) is
\* answered 404, never with a success status.
C24_PutOnAbsentRecordIs404 ==
  \A i \in 1..Len(requests) :
    (/\ requests[i].route = "PUT"
     /\ requests[i].applied
     /\ requests[i].over = <<>>)
    => requests[i].answer.status = 404

\* C29: whenever the store update or delete of a patient's PUT or DELETE on
\* an appointment is applied, the appointment's patientId at that moment is
\* the patient's id, also when a staff PUT changed patientId between the
\* patient's ownership check and write.
C29_PatientWriteAppliedOnOwn ==
  \A i \in 1..Len(requests) :
    (/\ requests[i].route \in {"PUT", "DELETE"}
     /\ requests[i].applied
     /\ requests[i].over # <<>>
     /\ RoleOf(requests[i].caller) = "patient")
    => requests[i].over[1].patientId = requests[i].caller

\* C30: the response of a nurse's GET /api/appointments never has the same
\* record id twice and never leaves out a record that belonged to some
\* doctor from the request's start to its end, also when a PUT changes a
\* doctorId between the per-doctor store calls.
C30_FanOutListsEachRecordOnce ==
  \A i \in 1..Len(requests) :
    (/\ requests[i].route = "GET"
     /\ IsDone(requests[i])
     /\ requests[i].answer.status = 200
     /\ RoleOf(requests[i].caller) = "nurse")
    => LET R == requests[i].answer.result
       IN /\ \A m, n \in 1..Len(R) : R[m].id = R[n].id => m = n
          /\ \A k \in requests[i].throughout : \E m \in 1..Len(R) : R[m].id = k

====
